---- MODULE Spec2Model ----
(***************************************************************************)
(* The two state machines of the execution engine:                         *)
(*   - SkillController.execute_skill   (src/skill_controller.py)           *)
(*   - WorkflowController.execute_workflow (src/workflow_controller.py)    *)
(* Every blocking operation of the code (a probe, a subprocess, an agent   *)
(* callback) is one action; its outcome is chosen by the environment.  A   *)
(* host interrupt (KeyboardInterrupt) is one of the outcomes of every      *)
(* blocking operation.                                                     *)
(***************************************************************************)
EXTENDS Naturals, Sequences, FiniteSets, TLC

\* ------------------------------------------------------------------ bounds
MaxSteps == 3
MaxRetry == 1

\* Step ids are unique within a skill; a skill with n steps has the first n.
StepIds == <<"a", "b", "c", "d", "e">>

\* ----------------------------------------------------------------- helpers
Range(s) == {s[k] : k \in 1..Len(s)}

IsPrefix(s, t) == Len(s) <= Len(t) /\ \A k \in 1..Len(s) : s[k] = t[k]

RECURSIVE SelectIds(_, _)
\* The subsequence of s whose elements are in set S, order kept.
SelectIds(s, S) ==
    IF s = <<>> THEN <<>>
    ELSE IF Head(s) \in S THEN <<Head(s)>> \o SelectIds(Tail(s), S)
    ELSE SelectIds(Tail(s), S)

\* --------------------------------------------------------- skill registry
\* Each declared step: its id and its retry count.
StepLists ==
    UNION {{[k \in 1..n |-> [id |-> StepIds[k], retry |-> r[k]]] :
                r \in [1..n -> 0..MaxRetry]} : n \in 1..MaxSteps}

\* Each prerequisite: whether it declares an error_message.
PrereqLists ==
    {<<>>,
     <<[error_message |-> TRUE]>>,
     <<[error_message |-> FALSE], [error_message |-> TRUE]>>}

\* Number of verification probes of a skill.
VerificationCounts == {0, 1, 2}

\* Rollback entries, by id, in declaration order.
RollbackLists ==
    {<<>>,
     <<"cleanup">>,
     <<"b", "a">>,
     <<"a", "cleanup", "c">>,
     <<"cleanup", "undo_b", "undo_a">>}

Skills ==
    [steps : StepLists,
     pre_requisites : PrereqLists,
     verification : VerificationCounts,
     rollback : RollbackLists,
     context7_required : BOOLEAN]

VARIABLES
    skill,              \* the registry entry being executed
    dry_run,            \* argument of execute_skill
    agent_callback,     \* TRUE iff an agent callback was passed
    pc,                 \* position of execute_skill
    step_i,             \* index of the step of the for loop (1-based)
    attempt,            \* retries made for the current step
    rb_i,               \* index of the rollback entry of _rollback's loop
    steps_completed,
    steps_failed,
    execution_log,      \* the log being built
    log_file,           \* the persisted log, or NoFile
    result,             \* the returned SkillResult, or NoResult
    prereqs_evaluated,  \* outcome of every _check_prereq call, in order
    context7_loaded,    \* agent_callback("use_context7") was invoked
    dispatched,         \* every _execute_step call, in order
    rollback_invoked,   \* _rollback was called
    rollback_executed,  \* ids of the rollback entries run, in order
    verify_evaluated,   \* outcome of every _verify call, in order
    interrupt_at        \* where a host interrupt arrived, or "none"

svars == <<skill, dry_run, agent_callback, pc, step_i, attempt, rb_i,
           steps_completed, steps_failed, execution_log, log_file, result,
           prereqs_evaluated, context7_loaded, dispatched, rollback_invoked,
           rollback_executed, verify_evaluated, interrupt_at>>


VARIABLES
    workflow,           \* the registry entry being executed
    state_file,         \* the state file on disk, or NoFile
    wf_pc,              \* position of execute_workflow
    wf_inputs,          \* the inputs mapping (the value of key "run")
    wf_resume,          \* argument resume
    wf_dry_run,         \* argument dry_run
    wf_callback,        \* TRUE iff an agent callback was passed
    start_phase,        \* index of the first phase of the loop (0-based)
    i,                  \* index of the phase of the for loop (0-based)
    phases_completed,
    phases_failed,
    phases_skipped,
    phase_outputs,      \* phase name -> success of its skill
    state,              \* the WorkflowState object: status, index, error
    wf_result,          \* the returned WorkflowResult, or NoResult
    invoked,            \* every execute_skill call of this call, by phase index
    hooks,              \* every checkpoint hook call of this call, by phase index
    wf_interrupts,      \* every host interrupt of this call, by phase index
    wf_passed,          \* argument inputs as the caller passed it ("run" or Absent)
    restored_state,     \* the saved state this call restored, or NoFile
    context_updated     \* _update_project_context was called by this call

wvars == <<workflow, state_file, wf_pc, wf_inputs, wf_resume, wf_dry_run,
           wf_callback, start_phase, i, phases_completed, phases_failed, phases_skipped,
           phase_outputs, state, wf_result, invoked, hooks, wf_interrupts,
           wf_passed, restored_state, context_updated>>

VARIABLES
    step,               \* the step handed to _execute_step
    step_inputs,        \* the inputs mapping: the value of key "dir", or NoDir
    step_callback,      \* TRUE iff an agent callback was passed
    step_pc,            \* position of _execute_step
    launched,           \* every subprocess launched, with its working directory
    callback_returned,  \* what the agent callback returned, or "not called"
    step_raised,        \* the exception raised inside the dispatcher, or "none"
    step_result         \* the returned StepResult, or NoResult

xvars == <<step, step_inputs, step_callback, step_pc, launched,
           callback_returned, step_raised, step_result>>

VARIABLES
    inputs,             \* an inputs mapping handed to the engine
    cmd,                \* the command of the one step of the skill
    persist_pc,         \* what has been persisted so far
    skill_log,          \* the execution log on disk, or NoFile
    saved_state         \* the workflow state file on disk, or NoFile

lvars == <<inputs, cmd, persist_pc, skill_log, saved_state>>

VARIABLES
    skill_name,         \* argument skill_name of execute_skill
    input_spec,         \* the skill's declaration of its one input "env"
    inputs_passed,      \* the value of "env" the caller passed, or Absent
    skill_inputs        \* the caller's inputs mapping, as it is now

evars == <<skill_name, input_spec, inputs_passed, skill_inputs>>

VARIABLES
    controller,         \* which controller is constructed: "skill" or "workflow"
    files,              \* the spec files on disk, in the order of the iteration
    schema_exists,      \* the schema file is on disk
    has_jsonschema,     \* HAS_JSONSCHEMA: the validator library was imported
    schema,             \* self.schema is set (FALSE: None)
    registry,           \* self.registry: the entries, in insertion order
    load_pc,            \* position of the construction
    load_i,             \* index of the file of _load_registry's loop
    load_errors,        \* every error logged by _load_registry, in order
    validated,          \* the files jsonschema.validate was called on, in order
    registered          \* the files assigned to the registry, in order

rvars == <<controller, files, schema_exists, has_jsonschema, schema, registry,
           load_pc, load_i, load_errors, validated, registered>>

vars == <<svars, wvars, xvars, lvars, evars, rvars>>

\* Absent: the key is not in the mapping.
Absent == "absent"

NoFile == [written |-> FALSE]
NoResult == [returned |-> FALSE]
NoError == [kind |-> "none", ref |-> 0]
Interrupted == [kind |-> "Interrupted by user", ref |-> 0]

StepIdSeq(sk) == [k \in 1..Len(sk.steps) |-> sk.steps[k].id]

\* --------------------------------------------------------- pieces of code
\* StepResult.success of a dispatch outcome.
StepSuccess(o) == o = "ok"

\* Mutant: one retry too many.
MayRetryOnceMore(used, retry) == used <= retry

\* for attempt in range(retries): another attempt is made while used < retry.
MayRetry(used, retry) == used < retry

\* Mutant: the completed step is put at the front of the list.
CompletedBefore(completed, id) == <<id>> \o completed

\* steps_completed.append(step_id)
CompletedAfter(completed, id) == Append(completed, id)

\* Mutant: the failing step is recorded twice.
FailedTwice(failed, id) == Append(Append(failed, id), id)

\* steps_failed.append(step_id)
FailedAfter(failed, id) == Append(failed, id)

\* Mutant: the rollback list is never found.
RollbackNever(sk) == FALSE

\* if skill.get("rollback"): a non-empty rollback list triggers _rollback.
RollbackRequired(sk) == sk.rollback # <<>>

\* Mutant: every rollback entry is run.
RollbackAll(id, completed) == TRUE

\* Mutant: the "cleanup" entry is not always run.
RollbackOnlyCompleted(id, completed) == id \in Range(completed)

\* if step["id"] in steps_completed or step["id"] == "cleanup"
RollbackSelected(id, completed) == id \in Range(completed) \/ id = "cleanup"

\* Mutant: the verification stops after its first probe.
FirstVerified(k, sk) == k >= 1

\* The verification loop ends after the last declared probe.
AllVerified(k, sk) == k = sk.verification

\* Mutant: the declared error_message is ignored.
PrereqErrorSynthesized(sk, k) == [kind |-> "Pre-requisite failed", ref |-> k]

\* prereq.get("error_message", f"Pre-requisite failed: {prereq}")
PrereqError(sk, k) ==
    IF sk.pre_requisites[k].error_message
    THEN [kind |-> "prereq error_message", ref |-> k]
    ELSE [kind |-> "Pre-requisite failed", ref |-> k]

\* f"Step '{step_id}' failed: {result.error}"
StepError(id) == [kind |-> "Step failed", ref |-> id]

\* The log entry of a step, made of the result of its first dispatch:
\* "status" is that result's success and "retries_used" its retries_used,
\* which a first dispatch leaves at the default 0.
StepLogEntry(id, success) ==
    [id |-> id,
     status |-> IF success THEN "success" ELSE "failed",
     retries_used |-> 0]

\* Mutant: the entry of a step is appended twice.
LogStepTwice(log, id, success) ==
    [log EXCEPT !.steps = Append(Append(@, StepLogEntry(id, success)),
                                 StepLogEntry(id, success))]

\* execution_log["steps"].append({...}) after the first dispatch of a step.
LogStep(log, id, success) ==
    [log EXCEPT !.steps = Append(@, StepLogEntry(id, success))]

\* Mutant: the documentation is preloaded in a dry run too.
UseContext7InDryRun(sk, cb, dr) == sk.context7_required /\ cb

\* if context7_libs: ... if agent_callback and not dry_run: the preload
\* callback is invoked.
UseContext7(sk, cb, dr) == sk.context7_required /\ cb /\ ~dr

\* _finalize_result: the log is written and the SkillResult returned.
Finalize(success, error, completed, failed, log) ==
    /\ log_file' = [written |-> TRUE,
                    success |-> success,
                    steps |-> log.steps,
                    error |-> log.error,
                    verification |-> log.verification,
                    steps_completed |-> completed,
                    steps_failed |-> failed]
    /\ result' = [returned |-> TRUE,
                  success |-> success,
                  steps_completed |-> completed,
                  steps_failed |-> failed,
                  log_file |-> TRUE,
                  error |-> error]
    /\ execution_log' = log
    /\ pc' = "done"

\* Mutant: the interrupt is not written to the log.
OnInterruptUnlogged ==
    Finalize(FALSE, Interrupted, steps_completed, steps_failed, execution_log)

\* Mutant: the interrupt handler runs the rollback entries first.
OnInterruptRollsBack ==
    IF pc # "rollback" /\ skill.rollback # <<>>
    THEN pc' = "rollback" /\ UNCHANGED <<execution_log, log_file, result>>
    ELSE Finalize(FALSE, Interrupted, steps_completed, steps_failed,
                  [execution_log EXCEPT !.error = Interrupted])

\* except KeyboardInterrupt: the log gets the error and is finalized.
OnInterrupt ==
    Finalize(FALSE, Interrupted, steps_completed, steps_failed,
             [execution_log EXCEPT !.error = Interrupted])

\* except Exception: the log gets the error and is finalized.
OnException ==
    Finalize(FALSE, [kind |-> "exception", ref |-> 0], steps_completed,
             steps_failed,
             [execution_log EXCEPT !.error = [kind |-> "exception", ref |-> 0]])

\* ------------------------------------------------- registry and inputs
\* The skill names, in ascending order of their spelling.
SkillNames == <<"bar", "baz", "foo">>

\* The position of a name in the order of the strings.
Rank(name) == CHOOSE k \in 1..Len(SkillNames) : SkillNames[k] = name

\* self.registry.keys(): the names, in insertion order.
RegistryKeys(reg) == [k \in 1..Len(reg) |-> reg[k].name]

RECURSIVE Insert(_, _)
\* A sorted sequence with one more name, still sorted.
Insert(sorted, name) ==
    IF sorted = <<>> THEN <<name>>
    ELSE IF Rank(name) <= Rank(Head(sorted)) THEN <<name>> \o sorted
    ELSE <<Head(sorted)>> \o Insert(Tail(sorted), name)

RECURSIVE Sorted(_)
\* sorted(names)
Sorted(names) ==
    IF names = <<>> THEN <<>> ELSE Insert(Sorted(Tail(names)), Head(names))

\* Mutant: the names are listed in insertion order.
ListSkillsUnsorted(reg) == RegistryKeys(reg)

\* list_skills: sorted(self.registry.keys())
ListSkills(reg) == Sorted(RegistryKeys(reg))

\* validate_skill_exists: skill_name in self.registry
SkillExists(reg, name) == name \in Range(RegistryKeys(reg))

\* f"Skill '{skill_name}' not found in registry. Available: {self.list_skills()}"
SkillNotFound(name, reg) ==
    [kind |-> "Skill not found", ref |-> 0, name |-> name,
     available |-> ListSkills(reg)]

\* The values of the input "env".
EnvValues == {"dev", "xx"}

\* The declarations of the input "env": required or not, with or without an
\* enum (the enum allows "dev" only), with or without a default.
InputSpecs ==
    [required : BOOLEAN, has_enum : BOOLEAN, enum : {{"dev"}},
     default : EnvValues \cup {Absent}]

\* Mutant: a missing required input goes unnoticed.
ValidateInputsLax(spec, v) ==
    IF v # Absent /\ spec.has_enum /\ v \notin spec.enum
    THEN [kind |-> "Invalid value", ref |-> "env"]
    ELSE NoError

\* validate_inputs: the first violation of the declaration, or none.
ValidateInputs(spec, v) ==
    IF spec.required /\ v = Absent
    THEN [kind |-> "Missing required input", ref |-> "env"]
    ELSE IF v # Absent /\ spec.has_enum /\ v \notin spec.enum
    THEN [kind |-> "Invalid value", ref |-> "env"]
    ELSE NoError

\* Apply defaults: inputs[input_name] = input_spec["default"], in place.
SkillDefaults(spec, v) ==
    IF v = Absent /\ spec.default # Absent THEN spec.default ELSE v

\* ----------------------------------------------------------------- Init
\* Before the call of execute_skill.
SkillIdle ==
    /\ dry_run = FALSE /\ agent_callback = FALSE /\ pc = "idle"
    /\ step_i = 1 /\ attempt = 0 /\ rb_i = 1
    /\ steps_completed = <<>> /\ steps_failed = <<>>
    /\ execution_log = [steps |-> <<>>, error |-> NoError, verification |-> "none"]
    /\ log_file = NoFile /\ result = NoResult
    /\ prereqs_evaluated = <<>> /\ context7_loaded = FALSE /\ dispatched = <<>>
    /\ rollback_invoked = FALSE /\ rollback_executed = <<>>
    /\ verify_evaluated = <<>>
    /\ interrupt_at = "none"

SkillInit == skill \in Skills /\ SkillIdle

\* -------------------------------------------------------------- actions
\* A SkillResult returned before the execution log exists: no log_file.
EarlyFailure(error) ==
    [returned |-> TRUE,
     success |-> FALSE,
     steps_completed |-> <<>>,
     steps_failed |-> <<>>,
     log_file |-> FALSE,
     error |-> error]

\* execute_skill up to the try block: the skill must resolve in the registry
\* and the inputs must validate; both failures return at once.
ExecuteSkill ==
    /\ UNCHANGED <<wvars, xvars, lvars, rvars, skill_name, input_spec,
                   inputs_passed>>
    /\ pc = "idle"
    /\ \E dr \in BOOLEAN, cb \in BOOLEAN :
        /\ dry_run' = dr
        /\ agent_callback' = cb
        /\ IF ~SkillExists(registry, skill_name)
           THEN /\ result' = EarlyFailure(SkillNotFound(skill_name, registry))
                /\ pc' = "done"
                /\ UNCHANGED skill_inputs
           ELSE IF ValidateInputs(input_spec, skill_inputs).kind # "none"
           THEN /\ result' = EarlyFailure(ValidateInputs(input_spec, skill_inputs))
                /\ pc' = "done"
                /\ UNCHANGED skill_inputs
           ELSE /\ skill_inputs' = SkillDefaults(input_spec, skill_inputs)
                /\ pc' = IF skill.pre_requisites = <<>> THEN "context7"
                         ELSE "prereqs"
                /\ UNCHANGED result
    /\ UNCHANGED <<skill, step_i, attempt, rb_i, steps_completed, steps_failed,
                   execution_log, log_file, prereqs_evaluated,
                   context7_loaded, dispatched, rollback_invoked,
                   rollback_executed, verify_evaluated, interrupt_at>>

\* One iteration of the pre-requisites loop.
CheckPrereq ==
    /\ UNCHANGED <<wvars, xvars, lvars, evars, rvars>>
    /\ pc = "prereqs"
    /\ LET k == Len(prereqs_evaluated) + 1 IN
       \E o \in {"pass", "fail", "interrupt"} :
         /\ interrupt_at' = IF o = "interrupt" THEN "prereq" ELSE interrupt_at
         /\ \/ /\ o = "pass"
               /\ prereqs_evaluated' = Append(prereqs_evaluated, TRUE)
               /\ pc' = IF k = Len(skill.pre_requisites) THEN "context7" ELSE "prereqs"
               /\ UNCHANGED <<execution_log, log_file, result>>
            \/ /\ o = "fail"
               /\ prereqs_evaluated' = Append(prereqs_evaluated, FALSE)
               /\ Finalize(FALSE, PrereqError(skill, k), steps_completed, steps_failed,
                           [execution_log EXCEPT !.error = PrereqError(skill, k)])
            \/ /\ o = "interrupt"
               /\ UNCHANGED prereqs_evaluated
               /\ OnInterrupt
    /\ UNCHANGED <<skill, dry_run, agent_callback, step_i, attempt, rb_i,
                   steps_completed, steps_failed, context7_loaded, dispatched,
                   rollback_invoked, rollback_executed, verify_evaluated>>

\* The documentation preload and the dry-run short-circuit.
LoadContext7 ==
    /\ UNCHANGED <<wvars, xvars, lvars, evars, rvars>>
    /\ pc = "context7"
    /\ \E o \in {"ok", "raise", "interrupt"} :
        /\ interrupt_at' = IF o = "interrupt" THEN "context7" ELSE interrupt_at
        /\ LET called == UseContext7(skill, agent_callback, dry_run) IN
           /\ (~called => o = "ok")
           /\ context7_loaded' = called
           /\ IF o = "interrupt" THEN OnInterrupt
              ELSE IF dry_run
              THEN /\ result' = [returned |-> TRUE,
                                 success |-> TRUE,
                                 steps_completed |-> <<"(dry run)">>,
                                 steps_failed |-> <<>>,
                                 log_file |-> FALSE,
                                 error |-> NoError]
                   /\ pc' = "done"
                   /\ UNCHANGED <<execution_log, log_file>>
              ELSE /\ pc' = "steps"
                   /\ UNCHANGED <<execution_log, log_file, result>>
    /\ UNCHANGED <<skill, dry_run, agent_callback, step_i, attempt, rb_i,
                   steps_completed, steps_failed, prereqs_evaluated, dispatched,
                   rollback_invoked, rollback_executed, verify_evaluated>>

\* The step succeeded (at once or on a retry): it is completed, and the loop
\* goes on to the next step or, after the last, to the verification.
StepSucceeded(log) ==
    LET completed == CompletedAfter(steps_completed, skill.steps[step_i].id) IN
    /\ steps_completed' = completed
    /\ UNCHANGED <<steps_failed, rollback_invoked>>
    /\ IF step_i < Len(skill.steps)
       THEN /\ step_i' = step_i + 1
            /\ pc' = "steps"
            /\ execution_log' = log
            /\ UNCHANGED <<log_file, result>>
       ELSE /\ UNCHANGED step_i
            /\ IF skill.verification = 0
               THEN Finalize(TRUE, NoError, completed, steps_failed,
                             [log EXCEPT !.verification = "passed"])
               ELSE /\ pc' = "verify"
                    /\ execution_log' = log
                    /\ UNCHANGED <<log_file, result>>

\* The step failed after its last attempt: it is recorded and rolled back.
StepFailed(log) ==
    LET failed == FailedAfter(steps_failed, skill.steps[step_i].id) IN
    /\ steps_failed' = failed
    /\ UNCHANGED <<steps_completed, step_i>>
    /\ IF RollbackRequired(skill)
       THEN /\ rollback_invoked' = TRUE
            /\ pc' = "rollback"
            /\ execution_log' = log
            /\ UNCHANGED <<log_file, result>>
       ELSE /\ UNCHANGED rollback_invoked
            /\ Finalize(FALSE, StepError(skill.steps[step_i].id), steps_completed,
                        failed,
                        [log EXCEPT !.error = StepError(skill.steps[step_i].id)])

\* The first dispatch of the step of the loop, and the log entry made of it.
ExecuteStep ==
    /\ UNCHANGED <<wvars, xvars, lvars, evars, rvars>>
    /\ pc = "steps"
    /\ \E o \in {"ok", "fail", "interrupt"} :
        /\ interrupt_at' = IF o = "interrupt" THEN "step" ELSE interrupt_at
        /\ /\ dispatched' = Append(dispatched, [step |-> step_i, outcome |-> o])
           /\ attempt' = 0
           /\ IF o = "interrupt"
              THEN /\ OnInterrupt
                   /\ UNCHANGED <<steps_completed, steps_failed, step_i,
                                  rollback_invoked>>
              ELSE LET log == LogStep(execution_log, skill.steps[step_i].id,
                                      StepSuccess(o))
                   IN
                   IF StepSuccess(o) THEN StepSucceeded(log)
                   ELSE IF MayRetry(0, skill.steps[step_i].retry)
                   THEN /\ pc' = "retry"
                        /\ execution_log' = log
                        /\ UNCHANGED <<steps_completed, steps_failed, step_i,
                                       rollback_invoked, log_file, result>>
                   ELSE StepFailed(log)
    /\ UNCHANGED <<skill, dry_run, agent_callback, rb_i, prereqs_evaluated,
                   context7_loaded, rollback_executed, verify_evaluated>>

\* One iteration of the retry loop.
RetryStep ==
    /\ UNCHANGED <<wvars, xvars, lvars, evars, rvars>>
    /\ pc = "retry"
    /\ \E o \in {"ok", "fail", "interrupt"} :
        /\ interrupt_at' = IF o = "interrupt" THEN "retry" ELSE interrupt_at
        /\ /\ dispatched' = Append(dispatched, [step |-> step_i, outcome |-> o])
           /\ attempt' = attempt + 1
           /\ IF o = "interrupt"
              THEN /\ OnInterrupt
                   /\ UNCHANGED <<steps_completed, steps_failed, step_i,
                                  rollback_invoked>>
              ELSE IF StepSuccess(o) THEN StepSucceeded(execution_log)
                   ELSE IF MayRetry(attempt + 1, skill.steps[step_i].retry)
                   THEN /\ pc' = "retry"
                        /\ UNCHANGED <<steps_completed, steps_failed, step_i,
                                       rollback_invoked, execution_log, log_file,
                                       result>>
                   ELSE StepFailed(execution_log)
    /\ UNCHANGED <<skill, dry_run, agent_callback, rb_i, prereqs_evaluated,
                   context7_loaded, rollback_executed, verify_evaluated>>

\* One iteration of _rollback's loop; after the last, the failure is finalized.
Rollback ==
    /\ UNCHANGED <<wvars, xvars, lvars, evars, rvars>>
    /\ pc = "rollback"
    /\ LET id == skill.rollback[rb_i] IN
       \E o \in {"ok", "raise", "interrupt"} :
         /\ interrupt_at' = IF o = "interrupt" THEN "rollback" ELSE interrupt_at
         /\ /\ (~RollbackSelected(id, steps_completed) => o = "ok")
            /\ rollback_executed' =
                 IF RollbackSelected(id, steps_completed)
                 THEN Append(rollback_executed, id) ELSE rollback_executed
            /\ rb_i' = rb_i + 1
            /\ IF o = "interrupt" THEN OnInterrupt
               ELSE IF rb_i = Len(skill.rollback)
               THEN Finalize(FALSE, StepError(steps_failed[1]), steps_completed,
                             steps_failed,
                             [execution_log EXCEPT
                                 !.error = StepError(steps_failed[1])])
               ELSE UNCHANGED <<pc, execution_log, log_file, result>>
    /\ UNCHANGED <<skill, dry_run, agent_callback, step_i, attempt,
                   steps_completed, steps_failed, prereqs_evaluated,
                   context7_loaded, dispatched, rollback_invoked,
                   verify_evaluated>>

\* One iteration of the verification loop; after the last, success.
Verify ==
    /\ UNCHANGED <<wvars, xvars, lvars, evars, rvars>>
    /\ pc = "verify"
    /\ LET k == Len(verify_evaluated) + 1 IN
       \E o \in {"pass", "fail", "raise", "interrupt"} :
         /\ interrupt_at' = IF o = "interrupt" THEN "verify" ELSE interrupt_at
         /\ \/ /\ o = "pass"
               /\ verify_evaluated' = Append(verify_evaluated, TRUE)
               /\ IF AllVerified(k, skill)
                  THEN Finalize(TRUE, NoError, steps_completed, steps_failed,
                                [execution_log EXCEPT !.verification = "passed"])
                  ELSE UNCHANGED <<pc, execution_log, log_file, result>>
            \/ /\ o = "fail"
               /\ verify_evaluated' = Append(verify_evaluated, FALSE)
               /\ Finalize(FALSE, [kind |-> "Verification failed", ref |-> k],
                           steps_completed, steps_failed,
                           [execution_log EXCEPT !.verification = "failed"])
            \/ /\ o = "raise"
               /\ UNCHANGED verify_evaluated
               /\ OnException
            \/ /\ o = "interrupt"
               /\ UNCHANGED verify_evaluated
               /\ OnInterrupt
    /\ UNCHANGED <<skill, dry_run, agent_callback, step_i, attempt, rb_i,
                   steps_completed, steps_failed, prereqs_evaluated,
                   context7_loaded, dispatched, rollback_invoked,
                   rollback_executed>>


\* ====================================================== execute_workflow
MaxPhases == 2

\* Phase names are unique within a workflow; one with n phases has the first n.
PhaseNames == <<"p1", "p2", "p3", "p4">>

OnFailure == {"stop", "skip_remaining", "continue"}

\* Values of the one workflow input "run".
InputValues == {"on", "off"}
Truthy(v) == v = "on"

\* A phase's condition: none, or input_truthy on the key "run".
Conditions == {"none", "input_truthy"}

PhaseLists ==
    UNION {{[k \in 1..n |-> [name |-> PhaseNames[k],
                             on_failure |-> f[k].on_failure,
                             checkpoint |-> f[k].checkpoint,
                             condition |-> f[k].condition]] :
                f \in [1..n -> [on_failure : OnFailure,
                                checkpoint : BOOLEAN,
                                condition : Conditions]]} : n \in 1..MaxPhases}

Workflows == [phases : PhaseLists, default : {Absent, "on"}]

NoOutputs == [n \in {} |-> FALSE]

\* ------------------------------------------------------- pieces of code
\* if input_name not in inputs and "default" in input_spec
ApplyDefaults(wf, v) == IF v = Absent /\ wf.default # Absent THEN wf.default ELSE v

\* {**saved_state.inputs, **inputs}
MergeInputs(saved, fresh) == IF fresh # Absent THEN fresh ELSE saved

\* Mutant: the saved state is never restored.
RestorableNever(resume, file) == FALSE

\* Mutant: a saved state of any status is restored.
RestorableAnyStatus(resume, file) == resume /\ file.written

\* if saved_state and saved_state.status == "paused"
Restorable(resume, file) == resume /\ file.written /\ file.status = "paused"

\* Mutant: the condition is not evaluated.
CheckConditionIgnored(phases, k, v) == TRUE

\* _check_condition
CheckCondition(phases, k, v) ==
    CASE phases[k].condition = "input_truthy" -> Truthy(v)
      [] OTHER -> TRUE

\* phase_outputs[phase_name] = {"success": skill_result.success, ...}
RecordOutput(outputs, name, success) ==
    [n \in DOMAIN outputs \cup {name} |->
        IF n = name THEN success ELSE outputs[n]]

\* SkillResult.success of a phase's skill execution; an interrupt inside
\* execute_skill is returned as a failure ("Interrupted by user").
SkillSuccess(o) == o = "success"

\* Mutant: the paused state points at the phase of the checkpoint.
CheckpointIndexSame(k) == k

\* state.current_phase_index = i + 1
CheckpointIndex(k) == k + 1

\* success = len(phases_failed) == 0
AggregateSuccess(failed) == failed = <<>>

\* _save_state: the file holds the WorkflowState as it is now.
SavedState(st, v, completed, failed, outputs) ==
    [written |-> TRUE,
     status |-> st.status,
     current_phase_index |-> st.current_phase_index,
     inputs |-> v,
     phases_completed |-> completed,
     phases_failed |-> failed,
     phase_outputs |-> outputs,
     error |-> st.error]

WorkflowResult(success, status, completed, failed, skipped, current, file, error) ==
    [returned |-> TRUE,
     success |-> success,
     status |-> status,
     phases_completed |-> completed,
     phases_failed |-> failed,
     phases_skipped |-> skipped,
     current_phase |-> current,
     state_file |-> file,
     error |-> error]

\* Mutant: the state file is left where it is.
ClearStateKept(file) == file

\* _clear_state: the state file, if any, is removed.
ClearState(file) == NoFile

\* Mutant: a dry run goes on into the phase loop.
DryRunIgnored(dr) == FALSE

\* if dry_run: the call returns before the phase loop.
DryRun(dr) == dr

\* Normal loop exit: the aggregate result; the project context is updated and
\* the state file is cleared on success.
Finish(completed, failed, skipped, file) ==
    /\ context_updated' = TRUE
    /\ wf_result' = WorkflowResult(AggregateSuccess(failed), "completed", completed,
                                   failed, skipped, "none", FALSE, "none")
    /\ state_file' = IF AggregateSuccess(failed) THEN ClearState(file) ELSE file
    /\ wf_pc' = "done"
    /\ UNCHANGED i

\* The end of a loop iteration: the next phase, or the loop exit.
Advance(completed, failed, skipped, file) ==
    IF i + 1 < Len(workflow.phases)
    THEN /\ i' = i + 1
         /\ wf_pc' = "phase"
         /\ state_file' = file
         /\ UNCHANGED <<wf_result, context_updated>>
    ELSE Finish(completed, failed, skipped, file)

\* ----------------------------------------------------------------- Init
\* No call of execute_workflow is running: its frame does not exist.
NoCall ==
    /\ wf_pc = "idle"
    /\ wf_inputs = Absent
    /\ wf_resume = FALSE
    /\ wf_dry_run = FALSE
    /\ wf_callback = FALSE
    /\ start_phase = 0
    /\ i = 0
    /\ phases_completed = <<>>
    /\ phases_failed = <<>>
    /\ phases_skipped = <<>>
    /\ phase_outputs = NoOutputs
    /\ state = [status |-> "pending", current_phase_index |-> 0, error |-> "none"]
    /\ wf_result = NoResult
    /\ invoked = <<>>
    /\ hooks = <<>>
    /\ wf_interrupts = <<>>
    /\ wf_passed = Absent
    /\ restored_state = NoFile
    /\ context_updated = FALSE

WorkflowInit == workflow \in Workflows /\ state_file = NoFile /\ NoCall

\* -------------------------------------------------------------- actions
\* execute_workflow up to the loop: defaults, restore on resume, dry run.
ExecuteWorkflow ==
    /\ UNCHANGED <<svars, xvars, lvars, evars, rvars>>
    /\ wf_pc = "idle"
    /\ \E v \in InputValues \cup {Absent}, rs \in BOOLEAN, dr \in BOOLEAN,
          cb \in BOOLEAN :
        LET given == ApplyDefaults(workflow, v)
            restore == Restorable(rs, state_file)
            start == IF restore THEN state_file.current_phase_index ELSE 0
            outputs == IF restore THEN state_file.phase_outputs ELSE NoOutputs
            merged == IF restore THEN MergeInputs(state_file.inputs, given)
                      ELSE given
        IN
        /\ wf_inputs' = merged
        /\ wf_resume' = rs
        /\ wf_dry_run' = dr
        /\ wf_callback' = cb
        /\ start_phase' = start
        /\ phase_outputs' = outputs
        /\ state' = [status |-> "in_progress",
                     current_phase_index |-> start,
                     error |-> "none"]
        /\ phases_completed' = <<>>
        /\ phases_failed' = <<>>
        /\ phases_skipped' = <<>>
        /\ invoked' = <<>>
        /\ hooks' = <<>>
        /\ wf_interrupts' = <<>>
        /\ wf_passed' = v
        /\ restored_state' = IF restore THEN state_file ELSE NoFile
        /\ IF DryRun(dr)
           THEN /\ wf_result' = WorkflowResult(TRUE, "completed", <<"(dry run)">>,
                                               <<>>, <<>>, "none", FALSE, "none")
                /\ wf_pc' = "done"
                /\ i' = start
                /\ UNCHANGED <<state_file, context_updated>>
           ELSE IF start < Len(workflow.phases)
           THEN /\ i' = start
                /\ wf_pc' = "phase"
                /\ wf_result' = NoResult
                /\ UNCHANGED <<state_file, context_updated>>
           ELSE /\ wf_result' = WorkflowResult(TRUE, "completed", <<>>, <<>>, <<>>,
                                               "none", FALSE, "none")
                /\ state_file' = ClearState(state_file)
                /\ context_updated' = TRUE
                /\ wf_pc' = "done"
                /\ i' = start
    /\ UNCHANGED workflow

\* The checkpoint of phase i: the paused state is saved, then the hook is due.
Checkpoint(completed, failed, skipped, outputs) ==
    LET st == [state EXCEPT !.status = "paused",
                            !.current_phase_index = CheckpointIndex(i)]
        file == SavedState(st, wf_inputs, completed, failed, outputs)
    IN
    /\ state' = st
    /\ IF wf_callback
       THEN /\ state_file' = file
            /\ wf_pc' = "checkpoint"
            /\ UNCHANGED <<i, wf_result, context_updated>>
       ELSE Advance(completed, failed, skipped, file)

\* One iteration of the phase loop up to the checkpoint hook: the condition,
\* the phase's skill, the on_failure policy and the save before the hook.
RunPhase ==
    /\ UNCHANGED <<svars, xvars, lvars, evars, rvars>>
    /\ wf_pc = "phase"
    /\ LET phase == workflow.phases[i + 1]
           st == [state EXCEPT !.current_phase_index = i]
       IN
       IF ~CheckCondition(workflow.phases, i + 1, wf_inputs)
       THEN /\ phases_skipped' = Append(phases_skipped, phase.name)
            /\ state' = st
            /\ Advance(phases_completed, phases_failed,
                       Append(phases_skipped, phase.name), state_file)
            /\ UNCHANGED <<phases_completed, phases_failed, phase_outputs, invoked,
                           wf_interrupts>>
       ELSE \E o \in {"success", "failed", "interrupted"} :
            LET outputs == RecordOutput(phase_outputs, phase.name, SkillSuccess(o)) IN
            /\ invoked' = Append(invoked, i)
            /\ wf_interrupts' = IF o = "interrupted" THEN Append(wf_interrupts, i)
                                ELSE wf_interrupts
            /\ phase_outputs' = outputs
            /\ UNCHANGED phases_skipped
            /\ IF SkillSuccess(o)
               THEN /\ phases_completed' = Append(phases_completed, phase.name)
                    /\ UNCHANGED phases_failed
                    /\ IF phase.checkpoint
                       THEN Checkpoint(Append(phases_completed, phase.name),
                                       phases_failed, phases_skipped, outputs)
                       ELSE /\ state' = st
                            /\ Advance(Append(phases_completed, phase.name),
                                       phases_failed, phases_skipped, state_file)
               ELSE /\ phases_failed' = Append(phases_failed, phase.name)
                    /\ UNCHANGED phases_completed
                    /\ CASE phase.on_failure = "stop" ->
                              LET failed_st == [st EXCEPT !.status = "failed",
                                                          !.error = phase.name]
                              IN
                              /\ state' = failed_st
                              /\ state_file' =
                                   SavedState(failed_st, wf_inputs, phases_completed,
                                              Append(phases_failed, phase.name),
                                              outputs)
                              /\ wf_result' =
                                   WorkflowResult(FALSE, "failed", phases_completed,
                                                  Append(phases_failed, phase.name),
                                                  phases_skipped, phase.name, FALSE,
                                                  "Phase failed")
                              /\ wf_pc' = "done"
                              /\ UNCHANGED <<i, context_updated>>
                         [] phase.on_failure = "skip_remaining" ->
                              /\ state' = st
                              /\ Finish(phases_completed,
                                        Append(phases_failed, phase.name),
                                        phases_skipped, state_file)
                         [] OTHER ->
                              IF phase.checkpoint
                              THEN Checkpoint(phases_completed,
                                              Append(phases_failed, phase.name),
                                              phases_skipped, outputs)
                              ELSE /\ state' = st
                                   /\ Advance(phases_completed,
                                              Append(phases_failed, phase.name),
                                              phases_skipped, state_file)
    /\ UNCHANGED <<workflow, wf_inputs, wf_resume, wf_dry_run, wf_callback,
                   start_phase, hooks, wf_passed, restored_state>>

\* agent_callback("checkpoint", ...) of the workflow and what follows it.
CheckpointHook ==
    /\ UNCHANGED <<svars, xvars, lvars, evars, rvars>>
    /\ wf_pc = "checkpoint"
    /\ hooks' = Append(hooks, i)
    /\ \E o \in {"truthy", "falsy", "interrupt", "raise"} :
        /\ wf_interrupts' = IF o = "interrupt" THEN Append(wf_interrupts, i)
                            ELSE wf_interrupts
        /\ CASE o = "truthy" ->
               /\ Advance(phases_completed, phases_failed, phases_skipped, state_file)
               /\ UNCHANGED state
          [] o = "falsy" ->
               /\ wf_result' =
                    WorkflowResult(FALSE, "paused", phases_completed, phases_failed,
                                   <<>>, workflow.phases[i + 1].name, TRUE,
                                   "Paused at checkpoint")
               /\ wf_pc' = "done"
               /\ UNCHANGED <<i, state, state_file, context_updated>>
          [] o = "interrupt" ->
               LET st == [state EXCEPT !.status = "cancelled"] IN
               /\ state' = st
               /\ state_file' = SavedState(st, wf_inputs, phases_completed,
                                           phases_failed, phase_outputs)
               /\ wf_result' =
                    WorkflowResult(FALSE, "cancelled", phases_completed,
                                   phases_failed, <<>>, "none", FALSE,
                                   "Cancelled by user")
               /\ wf_pc' = "done"
               /\ UNCHANGED <<i, context_updated>>
          [] OTHER ->
               LET st == [state EXCEPT !.status = "failed", !.error = "exception"] IN
               /\ state' = st
               /\ state_file' = SavedState(st, wf_inputs, phases_completed,
                                           phases_failed, phase_outputs)
               /\ wf_result' =
                    WorkflowResult(FALSE, "failed", phases_completed,
                                   phases_failed, <<>>, "none", FALSE, "exception")
               /\ wf_pc' = "done"
               /\ UNCHANGED <<i, context_updated>>
    /\ UNCHANGED <<workflow, wf_inputs, wf_resume, wf_dry_run, wf_callback,
                   start_phase, phases_completed, phases_failed, phases_skipped, phase_outputs,
                   invoked, wf_passed, restored_state>>

\* The call has returned: its frame is gone, the registry and the disk stay.
Returned ==
    /\ UNCHANGED <<svars, xvars, lvars, evars, rvars>>
    /\ wf_pc = "done"
    /\ wf_pc' = "idle"
    /\ wf_inputs' = Absent
    /\ wf_resume' = FALSE
    /\ wf_dry_run' = FALSE
    /\ wf_callback' = FALSE
    /\ start_phase' = 0
    /\ i' = 0
    /\ phases_completed' = <<>>
    /\ phases_failed' = <<>>
    /\ phases_skipped' = <<>>
    /\ phase_outputs' = NoOutputs
    /\ state' = [status |-> "pending", current_phase_index |-> 0, error |-> "none"]
    /\ wf_result' = NoResult
    /\ invoked' = <<>>
    /\ hooks' = <<>>
    /\ wf_interrupts' = <<>>
    /\ wf_passed' = Absent
    /\ restored_state' = NoFile
    /\ context_updated' = FALSE
    /\ UNCHANGED <<workflow, state_file>>

WorkflowNext ==
    \/ ExecuteWorkflow
    \/ RunPhase
    \/ CheckpointHook
    \/ Returned

\* ------------------------------------ _execute_step and the path guard
\* A resolved path is the sequence of its components from the filesystem
\* root. A path string is absolute or relative; its parts may be "..", and
\* "{dir}", the placeholder of the input "dir".
BasePath == <<"ws">>

\* Path.cwd() of the host process: the default base path.
ProcessCwd == <<"ws">>

\* No working_dir key in the step; no "dir" key in the inputs.
NoDir == [absent |-> TRUE]

\* The working_dir "."
Dot == [abs |-> FALSE, parts |-> <<>>]

StepTypes == {"bash", "python", "agent", "checkpoint", "mcp", "unknown"}

WorkingDirs ==
    {NoDir, Dot,
     [abs |-> FALSE, parts |-> <<"sub">>],
     [abs |-> FALSE, parts |-> <<"sub", "..">>],
     [abs |-> FALSE, parts |-> <<"..", "..", "etc">>],
     [abs |-> TRUE, parts |-> <<"etc">>],
     [abs |-> TRUE, parts |-> <<"ws", "sub">>],
     [abs |-> FALSE, parts |-> <<"{dir}">>],
     [abs |-> FALSE, parts |-> <<"sub", "{dir}">>]}

DirValues ==
    {NoDir,
     [abs |-> FALSE, parts |-> <<"sub">>],
     [abs |-> FALSE, parts |-> <<"..", "..">>],
     [abs |-> TRUE, parts |-> <<"etc">>]}

\* cmd_key: the input the command template refers to.
Steps ==
    [type : StepTypes, working_dir : WorkingDirs, cmd_key : {"none", "dir", "other"}]

NoStepResult == [returned |-> FALSE, raised |-> FALSE]

StepResult(success, error) ==
    [returned |-> TRUE, raised |-> FALSE, success |-> success, error |-> error]

\* A KeyboardInterrupt leaves _execute_step: no StepResult is returned.
StepInterrupted == [returned |-> FALSE, raised |-> TRUE]

\* Mutant: the exception leaves _execute_step.
OnStepExceptionRaised(error) == StepInterrupted

\* except Exception as e: a failed StepResult with error = str(e).
OnStepException(error) == StepResult(FALSE, error)

\* cmd.format(**inputs) raises KeyError
CmdKeyError(st, v) ==
    \/ st.cmd_key = "other"
    \/ st.cmd_key = "dir" /\ v = NoDir

HasPlaceholder(wd) == \E k \in 1..Len(wd.parts) : wd.parts[k] = "{dir}"

RECURSIVE Substitute(_, _)
Substitute(parts, v) ==
    IF parts = <<>> THEN <<>>
    ELSE (IF Head(parts) = "{dir}" THEN v.parts ELSE <<Head(parts)>>)
         \o Substitute(Tail(parts), v)

\* working_dir_str.format(**inputs), for an input "dir" that is present
Format(wd, v) ==
    IF ~HasPlaceholder(wd) THEN wd
    ELSE [abs |-> wd.abs \/ (wd.parts[1] = "{dir}" /\ v.abs),
          parts |-> Substitute(wd.parts, v)]

RECURSIVE Normalize(_, _)
Normalize(parts, acc) ==
    IF parts = <<>> THEN acc
    ELSE IF Head(parts) = ".."
    THEN Normalize(Tail(parts),
                   IF acc = <<>> THEN acc ELSE SubSeq(acc, 1, Len(acc) - 1))
    ELSE Normalize(Tail(parts), Append(acc, Head(parts)))

\* Path(path_str).resolve()
Resolve(path) ==
    Normalize(path.parts, IF path.abs THEN <<>> ELSE ProcessCwd)

\* resolved.relative_to(self.base_path.resolve()) does not raise
Contained(resolved) == IsPrefix(BasePath, resolved)

\* _validate_path_safety does not raise ValueError
ValidatePathSafety(path) == Contained(Resolve(path))

\* The working directory of the subprocess of a bash step: the validated
\* path, or the process's own directory (cwd = None) for ".".
BashCwd(st, v) ==
    IF st.working_dir \in {NoDir, Dot} THEN ProcessCwd
    ELSE Resolve(Format(st.working_dir, v))

\* The working directory of the subprocess of a python step: the declared
\* string as it is, or the process's own directory for "." and for none.
PythonCwd(st) ==
    IF st.working_dir \in {NoDir, Dot} THEN ProcessCwd
    ELSE Resolve(st.working_dir)

StepIdle ==
    /\ step_pc = "idle" /\ launched = <<>> /\ step_result = NoStepResult
    /\ callback_returned = "not called" /\ step_raised = "none"

\* _execute_step up to its blocking call: interpolation and the path guard.
DispatchStep ==
    /\ UNCHANGED <<svars, wvars, lvars, evars, rvars>>
    /\ step_pc = "idle"
    /\ CASE step.type = "bash" ->
              IF CmdKeyError(step, step_inputs)
              THEN /\ step_result' = StepResult(FALSE, "Missing input for command")
                   /\ step_raised' = "KeyError"
                   /\ step_pc' = "done"
              ELSE IF step.working_dir \in {NoDir, Dot}
              THEN /\ step_pc' = "subprocess"
                   /\ UNCHANGED <<step_result, step_raised>>
              ELSE IF HasPlaceholder(step.working_dir) /\ step_inputs = NoDir
              THEN /\ step_result' = OnStepException("KeyError")
                   /\ step_raised' = "KeyError"
                   /\ step_pc' = "done"
              ELSE IF ~ValidatePathSafety(Format(step.working_dir, step_inputs))
              THEN /\ step_result' = StepResult(FALSE, "SECURITY")
                   /\ step_raised' = "ValueError"
                   /\ step_pc' = "done"
              ELSE /\ step_pc' = "subprocess"
                   /\ UNCHANGED <<step_result, step_raised>>
         [] step.type = "python" ->
              IF CmdKeyError(step, step_inputs)
              THEN /\ step_result' = StepResult(FALSE, "Missing input for code")
                   /\ step_raised' = "KeyError"
                   /\ step_pc' = "done"
              ELSE /\ step_pc' = "subprocess"
                   /\ UNCHANGED <<step_result, step_raised>>
         [] step.type = "checkpoint" ->
              /\ UNCHANGED step_raised
              /\ IF step_callback
                 THEN /\ step_pc' = "callback"
                      /\ UNCHANGED step_result
                 ELSE /\ step_result' = StepResult(TRUE, "none")
                      /\ step_pc' = "done"
         [] step.type \in {"agent", "mcp"} ->
              /\ UNCHANGED step_raised
              /\ IF step_callback
                 THEN /\ step_pc' = "callback"
                      /\ UNCHANGED step_result
                 ELSE /\ step_result' = StepResult(FALSE, "No agent_callback provided")
                      /\ step_pc' = "done"
         [] OTHER ->
              /\ UNCHANGED step_raised
              /\ step_result' = StepResult(FALSE, "Unknown step type")
              /\ step_pc' = "done"
    /\ UNCHANGED <<step, step_inputs, step_callback, launched,
                   callback_returned>>

\* subprocess.run of a bash or python step and the StepResult made of it.
RunSubprocess ==
    /\ UNCHANGED <<svars, wvars, lvars, evars, rvars>>
    /\ step_pc = "subprocess"
    /\ LET dir == IF step.type = "bash" THEN BashCwd(step, step_inputs)
                  ELSE PythonCwd(step)
       IN
       \E o \in {"exit0", "nonzero", "timeout", "nodir", "interrupt"} :
         /\ launched' = IF o = "nodir" THEN launched
                        ELSE Append(launched, [type |-> step.type, cwd |-> dir])
         /\ step_raised' =
              CASE o = "timeout" -> "TimeoutExpired"
                [] o = "nodir" -> "FileNotFoundError"
                [] o = "interrupt" -> "KeyboardInterrupt"
                [] OTHER -> step_raised
         /\ step_result' =
              CASE o = "exit0" -> StepResult(TRUE, "none")
                [] o = "nonzero" -> StepResult(FALSE, "stderr")
                [] o = "timeout" -> StepResult(FALSE, "Command timed out")
                [] o = "nodir" -> OnStepException("FileNotFoundError")
                [] OTHER -> StepInterrupted
    /\ step_pc' = "done"
    /\ UNCHANGED <<step, step_inputs, step_callback, callback_returned>>

\* What an agent callback can do: return a truthy value, a falsy value
\* other than None (False, 0, an empty string), None, a StepResult of its own
\* making (a truthy object) that says success or failure, raise, or be
\* interrupted by the host.
CallbackOutcomes ==
    {"truthy", "falsy", "None", "StepResult ok", "StepResult failed",
     "raise", "interrupt"}

\* Mutant: a checkpoint succeeds whatever the callback returns.
CheckpointAlwaysPasses(v) == TRUE

\* success=bool(result) if result is not None else True
CheckpointSuccess(v) == IF v = "None" THEN TRUE ELSE v = "truthy"

\* The StepResult made of what the callback of a step returned: a StepResult
\* is passed on (agent and checkpoint steps); else a checkpoint step takes
\* the value for its success, and an agent or mcp step succeeds.
CallbackResult(type, v) ==
    IF v \in {"StepResult ok", "StepResult failed"} /\ type # "mcp"
    THEN StepResult(v = "StepResult ok", "none")
    ELSE IF type = "checkpoint" THEN StepResult(CheckpointSuccess(v), "none")
    ELSE StepResult(TRUE, "none")

\* agent_callback of an agent, checkpoint or mcp step.
StepCallback ==
    /\ UNCHANGED <<svars, wvars, lvars, evars, rvars>>
    /\ step_pc = "callback"
    /\ \E o \in CallbackOutcomes :
         /\ callback_returned' = IF o \in {"raise", "interrupt"}
                                 THEN callback_returned ELSE o
         /\ step_raised' =
              CASE o = "raise" -> "Exception"
                [] o = "interrupt" -> "KeyboardInterrupt"
                [] OTHER -> step_raised
         /\ step_result' =
              CASE o = "raise" -> OnStepException("exception")
                [] o = "interrupt" -> StepInterrupted
                [] OTHER -> CallbackResult(step.type, o)
    /\ step_pc' = "done"
    /\ UNCHANGED <<step, step_inputs, step_callback, launched>>

StepNext ==
    \/ DispatchStep
    \/ RunSubprocess
    \/ StepCallback

\* ------------------------------------------- what is persisted of inputs
\* Keys are sequences of characters, so that lower-casing and the substring
\* test of _sanitize_inputs_for_log are computed.
SENSITIVE_KEYS ==
    {<<"p", "a", "s", "s", "w", "o", "r", "d">>,
     <<"s", "e", "c", "r", "e", "t">>,
     <<"t", "o", "k", "e", "n">>,
     <<"a", "p", "i", "_", "k", "e", "y">>,
     <<"a", "p", "i", "k", "e", "y">>,
     <<"a", "p", "i", "-", "k", "e", "y">>,
     <<"p", "r", "i", "v", "a", "t", "e", "_", "k", "e", "y">>,
     <<"p", "r", "i", "v", "a", "t", "e", "k", "e", "y">>,
     <<"a", "u", "t", "h">>,
     <<"c", "r", "e", "d", "e", "n", "t", "i", "a", "l">>,
     <<"c", "r", "e", "d", "e", "n", "t", "i", "a", "l", "s">>,
     <<"a", "c", "c", "e", "s", "s", "_", "k", "e", "y">>,
     <<"s", "e", "c", "r", "e", "t", "_", "k", "e", "y">>,
     <<"b", "e", "a", "r", "e", "r">>,
     <<"j", "w", "t">>,
     <<"s", "e", "s", "s", "i", "o", "n">>}

\* str.lower on the letters the keys below are written with
UpperToLower == ("A" :> "a") @@ ("E" :> "e") @@ ("I" :> "i") @@ ("K" :> "k") @@ ("P" :> "p") @@ ("Y" :> "y")

Lower(key) ==
    [k \in 1..Len(key) |->
        IF key[k] \in DOMAIN UpperToLower THEN UpperToLower[key[k]] ELSE key[k]]

\* sub in s
Contains(s, sub) ==
    /\ Len(sub) <= Len(s)
    /\ \E k \in 1..(Len(s) + 1 - Len(sub)) : SubSeq(s, k, k + Len(sub) - 1) = sub

\* any(sensitive in key_lower for sensitive in SENSITIVE_KEYS)
IsSensitive(key) == \E t \in SENSITIVE_KEYS : Contains(Lower(key), t)

KeyName == <<"n", "a", "m", "e">>
KeyApiKey == <<"A", "P", "I", "_", "K", "E", "Y">>
KeyConfig == <<"c", "o", "n", "f", "i", "g">>
KeyDbPassword == <<"d", "b", "_", "p", "a", "s", "s", "w", "o", "r", "d">>
KeyHost == <<"h", "o", "s", "t">>

\* A value is a string or a nested mapping.
Str(v) == [dict |-> FALSE, v |-> v]
Dict(m) == [dict |-> TRUE, items |-> m]

PublicValues == {"v", "w"}
SecretValues == {"s1", "s2"}

NestedMappings ==
    {(KeyDbPassword :> Str(p)) @@ (KeyHost :> Str(h)) :
        p \in SecretValues, h \in PublicValues}

\* The inputs mappings: secrets are the values of sensitive-named keys.
InputMappings ==
    {(KeyName :> Str(n)) @@ (KeyApiKey :> Str(k)) @@ (KeyConfig :> c) :
        n \in PublicValues, k \in SecretValues,
        c \in {Str(v) : v \in PublicValues} \cup {Dict(m) : m \in NestedMappings}}

\* The command of the step: a fixed text, or one that prints an input.
Commands ==
    {[kind |-> "static", key |-> KeyName],
     [kind |-> "echo", key |-> KeyName],
     [kind |-> "echo", key |-> KeyApiKey]}

RECURSIVE SanitizeInputsForLog(_)
\* _sanitize_inputs_for_log
SanitizeInputsForLog(m) ==
    [k \in DOMAIN m |->
        IF IsSensitive(k) THEN Str("[REDACTED]")
        ELSE IF m[k].dict THEN Dict(SanitizeInputsForLog(m[k].items))
        ELSE m[k]]

\* result.stdout of the command formatted with the inputs: cmd.format(**inputs)
Stdout(c, m) == IF c.kind = "echo" THEN m[c.key].v ELSE "OK"

\* The execution log as _finalize_result writes it.
ExecutionLog(m, c) ==
    [written |-> TRUE,
     inputs |-> SanitizeInputsForLog(m),
     steps |-> <<[id |-> "a", status |-> "success", output |-> Stdout(c, m)]>>]

\* state.to_dict() as _save_state writes it: asdict of the WorkflowState,
\* whose inputs field is the inputs mapping of the call.
StateToDict(m) ==
    [written |-> TRUE, status |-> "paused", inputs |-> m]

FixedInputs ==
    /\ inputs = (KeyName :> Str("v"))
    /\ cmd = [kind |-> "static", key |-> KeyName]
    /\ persist_pc = "idle"
    /\ skill_log = NoFile
    /\ saved_state = NoFile

PersistInit ==
    /\ inputs \in InputMappings
    /\ cmd \in Commands
    /\ persist_pc = "idle"
    /\ skill_log = NoFile
    /\ saved_state = NoFile

\* execute_skill with these inputs, from the log's creation to its file.
WriteSkillLog ==
    /\ UNCHANGED <<svars, wvars, xvars, evars, rvars>>
    /\ skill_log = NoFile
    /\ skill_log' = ExecutionLog(inputs, cmd)
    /\ persist_pc' = "logged"
    /\ UNCHANGED <<inputs, cmd, saved_state>>

\* _save_state of a workflow called with these inputs.
SaveState ==
    /\ UNCHANGED <<svars, wvars, xvars, evars, rvars>>
    /\ saved_state = NoFile
    /\ saved_state' = StateToDict(inputs)
    /\ persist_pc' = "saved"
    /\ UNCHANGED <<inputs, cmd, skill_log>>

PersistNext ==
    \/ WriteSkillLog
    \/ SaveState

\* ------------------------------------------------------ registry load
MaxFiles == 2

\* A spec file: the name it declares, whether it parses as JSON and whether
\* it conforms to the schema.
SpecFiles ==
    {[name |-> n, json_ok |-> j, conforms |-> c] :
        n \in {"foo", "bar"}, j \in BOOLEAN, c \in BOOLEAN}

\* The files of the directory, in the order the iteration meets them.
FileLists == UNION {[1..n -> SpecFiles] : n \in 0..MaxFiles}

\* The position of a name among the keys of the registry, or 0.
KeyIndex(reg, name) ==
    IF name \in Range(RegistryKeys(reg))
    THEN CHOOSE k \in 1..Len(reg) : reg[k].name = name
    ELSE 0

\* self.registry[spec["name"]] = spec: a new key is added last, a key
\* already there keeps its place and gets the new value.
RegistryPut(reg, name, file) ==
    IF KeyIndex(reg, name) = 0
    THEN Append(reg, [name |-> name, file |-> file])
    ELSE [reg EXCEPT ![KeyIndex(reg, name)] = [name |-> name, file |-> file]]

\* __init__ up to the load: SkillController reads the schema file only when
\* the validator library was imported, WorkflowController whenever it exists.
LoadSchema(ctl, exists, has_validator) ==
    IF ctl = "skill" THEN exists /\ has_validator ELSE exists

\* What one iteration of _load_registry's loop does with a file: the error
\* it logs, or "none" when the file reaches the registry.
LoadOutcome(f, sch, has_validator) ==
    IF ~f.json_ok THEN "Invalid JSON"
    ELSE IF sch /\ ~has_validator THEN "jsonschema not installed"
    ELSE IF sch /\ ~f.conforms THEN "failed validation"
    ELSE "none"

LoadIdle ==
    /\ schema = FALSE /\ registry = <<>> /\ load_pc = "new" /\ load_i = 1
    /\ load_errors = <<>> /\ validated = <<>> /\ registered = <<>>

LoadInit ==
    /\ controller \in {"skill", "workflow"}
    /\ files \in FileLists
    /\ schema_exists \in BOOLEAN
    /\ has_jsonschema \in BOOLEAN
    /\ LoadIdle

\* __init__: the schema is read, then the registry is loaded.
Construct ==
    /\ UNCHANGED <<svars, wvars, xvars, lvars, evars>>
    /\ load_pc = "new"
    /\ schema' = LoadSchema(controller, schema_exists, has_jsonschema)
    /\ load_pc' = IF files = <<>> THEN "done" ELSE "loading"
    /\ UNCHANGED <<controller, files, schema_exists, has_jsonschema, registry,
                   load_i, load_errors, validated, registered>>

\* One iteration of _load_registry's loop.
LoadFile ==
    /\ UNCHANGED <<svars, wvars, xvars, lvars, evars>>
    /\ load_pc = "loading"
    /\ LET f == files[load_i]
           o == LoadOutcome(f, schema, has_jsonschema)
       IN
       /\ validated' = IF f.json_ok /\ schema /\ has_jsonschema
                        THEN Append(validated, load_i) ELSE validated
       /\ IF o = "none"
          THEN /\ registry' = RegistryPut(registry, f.name, load_i)
               /\ registered' = Append(registered, load_i)
               /\ UNCHANGED load_errors
          ELSE /\ load_errors' = Append(load_errors, [kind |-> o, file |-> load_i])
               /\ UNCHANGED <<registry, registered>>
    /\ load_i' = load_i + 1
    /\ load_pc' = IF load_i = Len(files) THEN "done" ELSE "loading"
    /\ UNCHANGED <<controller, files, schema_exists, has_jsonschema, schema>>

LoadNext == Construct \/ LoadFile

\* ------------------------------------------------------- specifications
SkillNext ==
    \/ ExecuteSkill
    \/ CheckPrereq
    \/ LoadContext7
    \/ ExecuteStep
    \/ RetryStep
    \/ Rollback
    \/ Verify


\* The Step Runner: one call of execute_skill on a skill of the registry.
FixedSkill ==
    [steps |-> <<[id |-> "a", retry |-> 0]>>, pre_requisites |-> <<>>,
     verification |-> 0, rollback |-> <<>>, context7_required |-> FALSE]

FixedWorkflow ==
    [phases |-> <<[name |-> "p1", on_failure |-> "stop", checkpoint |-> FALSE,
                   condition |-> "none"]>>,
     default |-> Absent]

\* The other machines at rest.
StepInit ==
    /\ step \in Steps /\ step_inputs \in DirValues /\ step_callback \in BOOLEAN
    /\ StepIdle

FixedStep ==
    /\ step = [type |-> "bash", working_dir |-> Dot, cmd_key |-> "none"]
    /\ step_inputs = NoDir /\ step_callback = FALSE
    /\ StepIdle

\* A registry of two skills, loaded without a schema.
FixedRegistry ==
    <<[name |-> "foo", file |-> 1], [name |-> "bar", file |-> 2]>>

\* The controller after the load of the files of a registry.
Loaded(reg) ==
    /\ controller = "skill"
    /\ files = [k \in 1..Len(reg) |->
                  [name |-> reg[k].name, json_ok |-> TRUE, conforms |-> TRUE]]
    /\ schema_exists = FALSE /\ has_jsonschema = TRUE /\ schema = FALSE
    /\ registry = reg
    /\ load_pc = "done" /\ load_i = Len(reg) + 1
    /\ load_errors = <<>> /\ validated = <<>>
    /\ registered = [k \in 1..Len(reg) |-> k]

\* The skill "foo" is asked for; it declares no constraint on its input.
FixedEntry ==
    /\ skill_name = "foo"
    /\ input_spec = [required |-> FALSE, has_enum |-> FALSE, enum |-> {"dev"},
                     default |-> Absent]
    /\ inputs_passed = Absent /\ skill_inputs = inputs_passed
    /\ Loaded(FixedRegistry)

\* A call of execute_skill for a skill of the registry or for an unknown one;
\* the skill requires its input "env" and allows the value "dev" only.
SkillEntry ==
    /\ skill_name \in {"foo", "baz"}
    /\ input_spec = [required |-> TRUE, has_enum |-> TRUE, enum |-> {"dev"},
                     default |-> Absent]
    /\ inputs_passed \in EnvValues \cup {Absent}
    /\ skill_inputs = inputs_passed
    /\ Loaded(FixedRegistry)

\* A call that passes the lookup and the validation of that declaration.
ValidEntry ==
    /\ skill_name = "foo"
    /\ input_spec = [required |-> TRUE, has_enum |-> TRUE, enum |-> {"dev"},
                     default |-> Absent]
    /\ inputs_passed = "dev" /\ skill_inputs = inputs_passed
    /\ Loaded(FixedRegistry)

\* Any skill called with valid inputs, or one skill called in any way: a
\* call that fails the lookup or the validation never reads the skill.
Init ==
    /\ \/ SkillInit /\ ValidEntry
       \/ SkillIdle /\ skill = FixedSkill /\ SkillEntry
    /\ WorkflowInit /\ workflow = FixedWorkflow /\ FixedStep /\ FixedInputs

Next == SkillNext

Spec == Init /\ [][Next]_vars

\* The Phase Orchestrator: calls of execute_workflow, one after the other, on
\* a workflow of the registry; the state file stays on disk between the calls.
WfInit ==
    /\ WorkflowInit /\ SkillIdle /\ skill = FixedSkill /\ FixedEntry
    /\ FixedStep /\ FixedInputs

WfNext == WorkflowNext

WfSpec == WfInit /\ [][WfNext]_vars

\* One call of _execute_step on a step, with or without the input "dir".
StepSpecInit ==
    /\ StepInit /\ FixedInputs
    /\ SkillIdle /\ skill = FixedSkill /\ FixedEntry
    /\ WorkflowInit /\ workflow = FixedWorkflow

StepSpec == StepSpecInit /\ [][StepNext]_vars

\* What the engine writes to disk of one inputs mapping.
PersistSpecInit ==
    /\ PersistInit /\ FixedStep
    /\ SkillIdle /\ skill = FixedSkill /\ FixedEntry
    /\ WorkflowInit /\ workflow = FixedWorkflow

PersistSpec == PersistSpecInit /\ [][PersistNext]_vars

\* The registries a load can leave: up to two skills, in any insertion order.
Registries ==
    {<<>>} \cup {<<[name |-> n, file |-> 1]>> : n \in Range(SkillNames)}
           \cup {<<[name |-> p[1], file |-> 1], [name |-> p[2], file |-> 2]>> :
                     p \in {q \in Range(SkillNames) \X Range(SkillNames) :
                                q[1] # q[2]}}

\* A skill with one of everything.
EntrySkill ==
    [steps |-> <<[id |-> "a", retry |-> 1]>>,
     pre_requisites |-> <<[error_message |-> TRUE]>>,
     verification |-> 1, rollback |-> <<"cleanup">>, context7_required |-> TRUE]

\* One call of execute_skill, for any name, on any registry, with any
\* declaration and any value of the input "env".
EntrySpecInit ==
    /\ SkillIdle /\ skill = EntrySkill
    /\ skill_name \in Range(SkillNames)
    /\ input_spec \in InputSpecs
    /\ inputs_passed \in EnvValues \cup {Absent}
    /\ skill_inputs = inputs_passed
    /\ \E reg \in Registries : Loaded(reg)
    /\ WorkflowInit /\ workflow = FixedWorkflow /\ FixedStep /\ FixedInputs

EntrySpec == EntrySpecInit /\ [][SkillNext]_vars

\* The construction of a controller over a directory of spec files.
LoadSpecInit ==
    /\ LoadInit
    /\ SkillIdle /\ skill = FixedSkill
    /\ skill_name = "foo"
    /\ input_spec = [required |-> FALSE, has_enum |-> FALSE, enum |-> {"dev"},
                     default |-> Absent]
    /\ inputs_passed = Absent /\ skill_inputs = inputs_passed
    /\ WorkflowInit /\ workflow = FixedWorkflow /\ FixedStep /\ FixedInputs

LoadSpec == LoadSpecInit /\ [][LoadNext]_vars

\* ================================================================ claims
\* The declared step ids of the skill being executed.
DeclaredIds == [k \in 1..Len(skill.steps) |-> skill.steps[k].id]

\* The positions of dispatched that are attempts of step k.
Attempts(k) == {j \in 1..Len(dispatched) : dispatched[j].step = k}

AllTrue(s) == \A k \in 1..Len(s) : s[k]

\* C1: in every state of execute_skill steps_completed is a prefix, in declared
\* order, of the skill's step ids; a step is dispatched only after every step
\* before it had a successful attempt; once a step has finally failed no step
\* is dispatched any more (the last dispatch is the failed attempt of that step).
C1_SequentialPrefix ==
    /\ IsPrefix(steps_completed, DeclaredIds)
    /\ (result.returned /\ ~dry_run) => IsPrefix(result.steps_completed, DeclaredIds)
    /\ \A j \in 1..Len(dispatched) :
         \A m \in 1..(dispatched[j].step - 1) :
            \E h \in 1..(j - 1) : dispatched[h] = [step |-> m, outcome |-> "ok"]
    /\ \A j \in 1..Len(dispatched) :
         dispatched[j].outcome = "ok" =>
            \A h \in (j + 1)..Len(dispatched) : dispatched[h].step > dispatched[j].step
    /\ steps_failed # <<>> =>
         /\ dispatched # <<>>
         /\ dispatched[Len(dispatched)].outcome = "fail"
         /\ DeclaredIds[dispatched[Len(dispatched)].step] = steps_failed[1]

\* C1 witness: the first step succeeded on a retry, the second at once, and the
\* third failed for good.
C1_Witness ==
    /\ pc = "done"
    /\ steps_completed = <<"a", "b">>
    /\ steps_failed = <<"c">>
    /\ dispatched[1] = [step |-> 1, outcome |-> "fail"]
    /\ dispatched[2] = [step |-> 1, outcome |-> "ok"]

\* C2: a step with retry = r is dispatched at most 1 + r times; a successful
\* attempt is the last attempt of its step and puts the step into
\* steps_completed exactly once; a step is in steps_failed only after 1 + r
\* attempts that all failed.
C2_RetryBound ==
    \A k \in 1..Len(skill.steps) :
        LET r == skill.steps[k].retry
            id == skill.steps[k].id
            succeeded == \E j \in Attempts(k) : dispatched[j].outcome = "ok"
        IN
        /\ Cardinality(Attempts(k)) <= 1 + r
        /\ \A j \in Attempts(k) :
              dispatched[j].outcome = "ok" => \A h \in Attempts(k) : h <= j
        /\ Cardinality({h \in 1..Len(steps_completed) : steps_completed[h] = id})
              = IF succeeded THEN 1 ELSE 0
        /\ id \in Range(steps_failed) =>
              /\ Cardinality(Attempts(k)) = 1 + r
              /\ \A j \in Attempts(k) : dispatched[j].outcome = "fail"

\* C2 witness: a step with a retry succeeded on its second attempt, and the
\* next step, with a retry too, failed on both of its attempts.
C2_Witness ==
    /\ Len(skill.steps) >= 2
    /\ skill.steps[1].retry = 1
    /\ skill.steps[2].retry = 1
    /\ steps_completed = <<"a">>
    /\ steps_failed = <<"b">>
    /\ Len(dispatched) = 4

\* C3: when execute_skill returns the failure of a step, steps_failed is that
\* one step id and steps_completed followed by it is a prefix of the declared
\* ids; no step id is ever in both steps_completed and steps_failed.
C3_FailureAtomicity ==
    /\ Range(steps_completed) \cap Range(steps_failed) = {}
    /\ Len(steps_failed) <= 1
    /\ (pc = "done" /\ dispatched # <<>>
          /\ dispatched[Len(dispatched)].outcome = "fail") =>
         LET id == skill.steps[dispatched[Len(dispatched)].step].id IN
         /\ result.returned /\ ~result.success
         /\ result.steps_failed = <<id>>
         /\ IsPrefix(result.steps_completed \o result.steps_failed, DeclaredIds)
         /\ Range(result.steps_completed) \cap Range(result.steps_failed) = {}
         /\ log_file.written
         /\ log_file.steps_failed = <<id>>
         /\ log_file.steps_completed = result.steps_completed

\* C3 witness: the second step of three failed after its retry.
C3_Witness ==
    /\ pc = "done"
    /\ Len(skill.steps) = 3
    /\ result.returned
    /\ result.error = [kind |-> "Step failed", ref |-> "b"]
    /\ result.steps_completed = <<"a">>
    /\ attempt = 1

\* The rollback entries _rollback is to run for the steps_completed of now.
RollbackDue ==
    SelectIds(skill.rollback, Range(steps_completed) \cup {"cleanup"})

\* C4 as written: when rollback runs, the entries executed are exactly the
\* entries whose id is in steps_completed or is "cleanup", in declaration order.
C4_ExactRollback ==
    (pc = "done" /\ rollback_invoked) => rollback_executed = RollbackDue

\* C4 amended: the entries executed are, in declaration order, a prefix of the
\* entries whose id is in steps_completed or is "cleanup"; all of them unless a
\* host interrupt ended the rollback; no entry runs without a rollback.
C4_RollbackScope ==
    /\ IsPrefix(rollback_executed, RollbackDue)
    /\ ~rollback_invoked => rollback_executed = <<>>
    /\ (pc = "done" /\ rollback_invoked /\ result.error # Interrupted) =>
          rollback_executed = RollbackDue

\* C4 witness: of the entries [a, cleanup, c] the rollback ran a and cleanup,
\* after step a completed and step b failed.
C4_Witness ==
    /\ pc = "done"
    /\ skill.rollback = <<"a", "cleanup", "c">>
    /\ steps_completed = <<"a">>
    /\ rollback_executed = <<"a", "cleanup">>
    /\ result.error = [kind |-> "Step failed", ref |-> "b"]

\* C5: _rollback is called exactly when a step has finally failed in a skill
\* whose rollback list is not empty; after a prerequisite failure and after a
\* verification failure no rollback entry has run, and after a verification
\* failure steps_completed lists every step.
C5_RollbackTrigger ==
    /\ rollback_invoked <=> (steps_failed # <<>> /\ skill.rollback # <<>>)
    /\ rollback_executed # <<>> => rollback_invoked
    /\ (\E k \in 1..Len(prereqs_evaluated) : ~prereqs_evaluated[k]) =>
          ~rollback_invoked /\ rollback_executed = <<>>
    /\ (\E k \in 1..Len(verify_evaluated) : ~verify_evaluated[k]) =>
          /\ ~rollback_invoked /\ rollback_executed = <<>>
          /\ result.returned /\ ~result.success
          /\ result.steps_completed = DeclaredIds
          /\ result.steps_failed = <<>>

\* C5 witness: the verification failed in a skill that declares rollback entries.
C5_Witness ==
    /\ pc = "done"
    /\ skill.rollback = <<"b", "a">>
    /\ Len(skill.steps) = 2
    /\ verify_evaluated = <<TRUE, FALSE>>

\* C6: prerequisites are evaluated in order and before anything else; at the
\* first failing one execute_skill returns failure with that prerequisite's
\* error_message, or the synthesized one when it declares none; no later
\* prerequisite, no preload, no step and no rollback has run, and
\* steps_completed and steps_failed are empty.
C6_PrereqGate ==
    /\ Len(prereqs_evaluated) <= Len(skill.pre_requisites)
    /\ \A k \in 1..(Len(prereqs_evaluated) - 1) : prereqs_evaluated[k]
    /\ (context7_loaded \/ dispatched # <<>> \/ verify_evaluated # <<>>) =>
          /\ Len(prereqs_evaluated) = Len(skill.pre_requisites)
          /\ AllTrue(prereqs_evaluated)
    /\ (prereqs_evaluated # <<>> /\ ~prereqs_evaluated[Len(prereqs_evaluated)]) =>
          LET k == Len(prereqs_evaluated) IN
          /\ pc = "done" /\ result.returned /\ ~result.success
          /\ result.error.ref = k
          /\ result.error.kind = IF skill.pre_requisites[k].error_message
                                 THEN "prereq error_message"
                                 ELSE "Pre-requisite failed"
          /\ result.steps_completed = <<>> /\ result.steps_failed = <<>>
          /\ ~context7_loaded
          /\ dispatched = <<>>
          /\ ~rollback_invoked /\ rollback_executed = <<>>

\* C6 witness: the first prerequisite passed and the second, which declares an
\* error_message, failed, in a skill that requires the preload.
C6_Witness ==
    /\ pc = "done"
    /\ prereqs_evaluated = <<TRUE, FALSE>>
    /\ skill.context7_required /\ agent_callback /\ ~dry_run
    /\ result.error = [kind |-> "prereq error_message", ref |-> 2]

\* C7: a successful return without dry_run means that every prerequisite
\* passed, every step is in steps_completed, in order, steps_failed is empty
\* and every verification probe was evaluated and passed; no probe is
\* evaluated before all steps have succeeded.
C7_SuccessMeansVerified ==
    /\ (result.returned /\ result.success /\ ~dry_run) =>
          /\ Len(prereqs_evaluated) = Len(skill.pre_requisites)
          /\ AllTrue(prereqs_evaluated)
          /\ result.steps_completed = DeclaredIds
          /\ result.steps_failed = <<>>
          /\ \A k \in 1..Len(skill.steps) :
                \E j \in Attempts(k) : dispatched[j].outcome = "ok"
          /\ Len(verify_evaluated) = skill.verification
          /\ AllTrue(verify_evaluated)
    /\ verify_evaluated # <<>> =>
          /\ steps_completed = DeclaredIds
          /\ steps_failed = <<>>

\* C7 witness: a skill with prerequisites, three steps and two probes succeeded.
C7_Witness ==
    /\ pc = "done"
    /\ result.returned /\ result.success /\ ~dry_run
    /\ Len(skill.steps) = 3
    /\ prereqs_evaluated = <<TRUE, TRUE>>
    /\ verify_evaluated = <<TRUE, TRUE>>

\* The condition of the k-th declared phase holds for the inputs of the call.
ConditionHolds(k) ==
    workflow.phases[k].condition = "none" \/ wf_inputs = "on"

\* The position (1-based) of the phase of that name.
PhaseAt(name) ==
    CHOOSE k \in 1..Len(workflow.phases) : workflow.phases[k].name = name

\* C8: within one call the step runner is invoked for phases of strictly
\* increasing index, so at most once per phase; a phase whose condition is
\* false is not executed, is in phases_skipped, and is not in
\* phases_completed, phases_failed or phase_outputs; a phase whose condition
\* holds is executed.
C8_PhaseOrder ==
    /\ \A a, b \in 1..Len(invoked) : a < b => invoked[a] < invoked[b]
    /\ \A j \in 1..Len(invoked) :
          /\ start_phase <= invoked[j] /\ invoked[j] <= i
          /\ ConditionHolds(invoked[j] + 1)
    /\ \A name \in Range(phases_skipped) :
          /\ \E k \in 1..Len(workflow.phases) : workflow.phases[k].name = name
          /\ ~ConditionHolds(PhaseAt(name))
          /\ (PhaseAt(name) - 1) \notin Range(invoked)
          /\ name \notin Range(phases_completed) \cup Range(phases_failed)
          /\ name \notin DOMAIN phase_outputs
    /\ \A k \in (start_phase + 1)..i :
          IF ConditionHolds(k) THEN (k - 1) \in Range(invoked)
          ELSE workflow.phases[k].name \in Range(phases_skipped)

\* C8 witness: the first phase was skipped by its condition and the second ran.
C8_Witness ==
    /\ wf_pc = "done"
    /\ phases_skipped = <<"p1">>
    /\ invoked = <<1>>
    /\ wf_result.success

\* No phase after the k-th declared one was started in this call.
NothingAfter(k) ==
    /\ \A x \in Range(invoked) : x + 1 <= k
    /\ \A name \in Range(phases_skipped) : PhaseAt(name) <= k

\* C9: when the call has returned, every failed phase was handled by its
\* on_failure policy: stop persisted the state with status failed and returned
\* failure with no later phase started; skip_remaining started no later phase
\* and returned the aggregate; continue processed the next phase in order
\* (unless a host interrupt or an exception of the hook ended the call).
C9_OnFailurePolicy ==
    (wf_pc = "done" /\ ~wf_dry_run) =>
        \A j \in 1..Len(phases_failed) :
            LET k == PhaseAt(phases_failed[j])
                policy == workflow.phases[k].on_failure
            IN
            CASE policy = "stop" ->
                   /\ state_file.written /\ state_file.status = "failed"
                   /\ wf_result.status = "failed" /\ ~wf_result.success
                   /\ NothingAfter(k)
              [] policy = "skip_remaining" ->
                   /\ wf_result.status = "completed" /\ ~wf_result.success
                   /\ wf_result.phases_failed = phases_failed
                   /\ wf_result.phases_completed = phases_completed
                   /\ NothingAfter(k)
              [] OTHER ->
                   (/\ k < Len(workflow.phases)
                    /\ wf_result.error \notin {"Cancelled by user", "exception"}) =>
                      \/ k \in Range(invoked)
                      \/ workflow.phases[k + 1].name \in Range(phases_skipped)

\* C10: the checkpoint hook of phase i is invoked only with the state on disk,
\* status paused and current_phase_index = i + 1; a call that returns paused
\* leaves that file in place and has started no later phase; every paused
\* state on disk points one past a checkpoint phase, which is the first phase
\* the persisted state has no output of.
C10_CheckpointPersisted ==
    /\ wf_pc = "checkpoint" =>
          /\ state_file.written /\ state_file.status = "paused"
          /\ state_file.current_phase_index = i + 1
          /\ i \notin Range(hooks)
    /\ \A j \in 1..Len(hooks) : workflow.phases[hooks[j] + 1].checkpoint
    /\ (wf_pc = "done" /\ wf_result.status = "paused") =>
          /\ ~wf_result.success /\ wf_result.state_file
          /\ hooks # <<>> /\ hooks[Len(hooks)] = i
          /\ state_file.written /\ state_file.status = "paused"
          /\ state_file.current_phase_index = i + 1
          /\ NothingAfter(i + 1)
    /\ (state_file.written /\ state_file.status = "paused") =>
          LET idx == state_file.current_phase_index IN
          /\ idx \in 1..Len(workflow.phases)
          /\ workflow.phases[idx].checkpoint
          /\ workflow.phases[idx].name \in DOMAIN state_file.phase_outputs
          /\ \A k \in 1..Len(workflow.phases) :
                workflow.phases[k].name \in DOMAIN state_file.phase_outputs
                   => k <= idx

\* C10 witness: a workflow of two phases paused at the checkpoint of the first.
C10_Witness ==
    /\ wf_pc = "done"
    /\ wf_result.status = "paused"
    /\ Len(workflow.phases) = 2
    /\ i = 0
    /\ state_file.current_phase_index = 1
    /\ phases_completed = <<"p1">>

\* The call restored a paused state: only a restore makes the loop start
\* after phase 0.
Resumed == start_phase > 0

\* Every phase from the restored index on is in phases_completed.
RemainingSucceeded ==
    \A k \in (start_phase + 1)..Len(workflow.phases) :
        workflow.phases[k].name \in Range(phases_completed)

\* The resumed call before its first phase: the loop starts at the persisted
\* index with the persisted phase_outputs, and no earlier phase runs again.
ResumeStart ==
    /\ (/\ wf_pc = "phase" /\ wf_resume /\ invoked = <<>> /\ phases_skipped = <<>>
        /\ state_file.written /\ state_file.status = "paused") =>
          /\ start_phase = state_file.current_phase_index
          /\ i = start_phase
          /\ phase_outputs = state_file.phase_outputs
    /\ \A j \in 1..Len(invoked) : invoked[j] >= start_phase
    /\ \A j \in 1..Len(phases_skipped) : PhaseAt(phases_skipped[j]) > start_phase
    /\ \A j \in 1..Len(hooks) : hooks[j] >= start_phase

SucceededPhases ==
    LET names == [k \in 1..Len(workflow.phases) |-> workflow.phases[k].name]
        Succeeded(n) == n \in DOMAIN phase_outputs /\ phase_outputs[n]
    IN SelectSeq(names, Succeeded)

\* C12: resume equivalence. An execution that runs to completion, paused and
\* resumed or not, ends with the phases_completed of the execution that did
\* not pause: the succeeded phases in order, as the final phase_outputs
\* record them.
C12_ResumeEquivalence ==
    (wf_pc = "done" /\ ~wf_dry_run /\ wf_result.status = "completed") =>
        wf_result.phases_completed = SucceededPhases

\* C13: after a call that is not a dry run and returns success there is no
\* state file, whether one existed before or was written at a checkpoint.
C13_NoStateAfterSuccess ==
    (wf_pc = "done" /\ ~wf_dry_run /\ wf_result.success) => ~state_file.written

\* C13 witness: a resumed call (a state file existed) passed a checkpoint
\* (the file was written again) and returned success.
C13_Witness ==
    /\ wf_pc = "done"
    /\ ~wf_dry_run
    /\ Resumed
    /\ hooks # <<>>
    /\ wf_result.success
    /\ ~state_file.written

\* C14: after a call that returns success = false a state file exists.
C14_StateAfterFailure ==
    (wf_pc = "done" /\ ~wf_result.success) => state_file.written

\* C19: once a host interrupt has arrived, in a phase's skill or in the
\* checkpoint hook, the call has returned with the state persisted and no
\* later phase was started.
C19_InterruptStops ==
    wf_interrupts # <<>> =>
        /\ wf_pc = "done"
        /\ state_file.written
        /\ \A j \in 1..Len(invoked) : invoked[j] <= wf_interrupts[1]
        /\ Len(wf_interrupts) = 1

\* C18: once a host interrupt has arrived (at a prerequisite, a step's first
\* attempt or retry, a callback, a rollback command or a verification probe)
\* execute_skill has returned failure "Interrupted by user" with the log
\* persisted, and the interrupted dispatch, if any, is the last one.
C18_InterruptReturns ==
    /\ interrupt_at # "none" =>
          /\ pc = "done"
          /\ result.returned /\ ~result.success
          /\ result.error = Interrupted
          /\ result.log_file /\ log_file.written
          /\ log_file.error = Interrupted /\ ~log_file.success
          /\ log_file.steps_completed = steps_completed
    /\ \A j \in 1..Len(dispatched) :
          dispatched[j].outcome = "interrupt" =>
              j = Len(dispatched) /\ interrupt_at \in {"step", "retry"}
    /\ interrupt_at = "prereq" => dispatched = <<>> /\ ~context7_loaded
    /\ interrupt_at = "context7" => dispatched = <<>>
    /\ interrupt_at \in {"step", "retry"} =>
          /\ dispatched # <<>>
          /\ dispatched[Len(dispatched)].outcome = "interrupt"
          /\ steps_completed =
                SubSeq(DeclaredIds, 1, dispatched[Len(dispatched)].step - 1)
    /\ interrupt_at = "verify" => steps_completed = DeclaredIds

\* C18 witness: the interrupt arrived during the retry of the second step.
C18_Witness ==
    /\ pc = "done"
    /\ interrupt_at = "retry"
    /\ steps_completed = <<"a">>
    /\ Len(dispatched) = 3
    /\ result.error = Interrupted

\* C20: every call of execute_skill that returns success = false has
\* persisted an execution log and reports it in log_file.
C20_FailureLogged ==
    (pc = "done" /\ result.returned /\ ~result.success) =>
        result.log_file /\ log_file.written

\* C15: no subprocess is launched for a step, bash or python, with a working
\* directory that resolves outside the base path.
C15_PathContainment ==
    \A j \in 1..Len(launched) : Contained(launched[j].cwd)

RECURSIVE LeafValues(_)
\* The strings a mapping holds, at any depth.
LeafValues(m) ==
    UNION {IF m[k].dict THEN LeafValues(m[k].items) ELSE {m[k].v} : k \in DOMAIN m}

RECURSIVE SecretsOf(_)
\* The values of the sensitive-named keys of a mapping, at any depth.
SecretsOf(m) ==
    UNION {IF IsSensitive(k)
           THEN (IF m[k].dict THEN LeafValues(m[k].items) ELSE {m[k].v})
           ELSE IF m[k].dict THEN SecretsOf(m[k].items) ELSE {} : k \in DOMAIN m}

\* The strings of a persisted execution log: its inputs and its step outputs.
LogValues(log) ==
    LeafValues(log.inputs) \cup {log.steps[k].output : k \in 1..Len(log.steps)}

\* C16: the persisted execution log, in its inputs field and in every other
\* field, holds the value of no sensitive-named input key.
C16_LogFreeOfSecrets ==
    skill_log.written => SecretsOf(inputs) \cap LogValues(skill_log) = {}

RECURSIVE AllRedacted(_)
\* Every sensitive-named key of the mapping, at any depth, is "[REDACTED]".
AllRedacted(m) ==
    \A k \in DOMAIN m :
        IF IsSensitive(k) THEN m[k] = Str("[REDACTED]")
        ELSE m[k].dict => AllRedacted(m[k].items)

\* C17: every inputs mapping written to disk, in the execution log and in
\* the workflow state file, has its sensitive-named keys redacted.
C17_PersistedInputsRedacted ==
    /\ skill_log.written => AllRedacted(skill_log.inputs)
    /\ saved_state.written => AllRedacted(saved_state.inputs)

\* The failed attempts of step k.
FailedAttempts(k) == {j \in Attempts(k) : dispatched[j].outcome = "fail"}

\* Step k succeeded on a retry, after at least one failed attempt.
SucceededOnRetry(k) ==
    /\ FailedAttempts(k) # {}
    /\ \E j \in Attempts(k) : dispatched[j].outcome = "ok"

\* C21: a step that fails its first k attempts (k within its retry count) and
\* succeeds on the next is in steps_completed, the skill goes on, and the
\* persisted log entry of the step has status success and retries_used = k.
C21_RetryLogged ==
    log_file.written =>
        \A k \in 1..Len(skill.steps) :
            SucceededOnRetry(k) =>
                /\ skill.steps[k].id \in Range(log_file.steps_completed)
                /\ log_file.steps[k].status = "success"
                /\ log_file.steps[k].retries_used = Cardinality(FailedAttempts(k))

\* The ids of the entries of a log's steps array, in order.
LoggedIds(steps) == [k \in 1..Len(steps) |-> steps[k].id]

\* C22: the log persisted by a successful execution has in its steps array
\* exactly one entry per step that ran, retried or not: the ids, in order, are
\* steps_completed and the two lengths agree.
C22_OneEntryPerStep ==
    (pc = "done" /\ result.success /\ log_file.written) =>
        /\ LoggedIds(log_file.steps) = result.steps_completed
        /\ Len(log_file.steps) = Len(result.steps_completed)
        /\ log_file.steps_completed = result.steps_completed

\* C22 witness: a successful execution of two steps, the first of which
\* succeeded on its retry, persisted a log of two entries.
C22_Witness ==
    /\ pc = "done" /\ result.success /\ log_file.written
    /\ SucceededOnRetry(1)
    /\ Len(log_file.steps) = 2
    /\ result.steps_completed = <<"a", "b">>

\* The names of the skills of the registry.
Registered == {registry[k].name : k \in 1..Len(registry)}

\* The value passed for "env" breaks the declaration: it is required and
\* absent, or it is present and not in the enum.
InputsInvalid ==
    \/ input_spec.required /\ inputs_passed = Absent
    \/ input_spec.has_enum /\ inputs_passed # Absent
                            /\ inputs_passed \notin input_spec.enum

\* Nothing was evaluated, called, run or written by the execution.
NothingDone ==
    /\ prereqs_evaluated = <<>> /\ ~context7_loaded /\ dispatched = <<>>
    /\ ~rollback_invoked /\ rollback_executed = <<>> /\ verify_evaluated = <<>>
    /\ log_file = NoFile

\* C23: when a required input is absent or an enum is violated, execute_skill
\* returns a failure and has had no effect: the caller's inputs mapping is as
\* it was passed (no default applied), no prerequisite was evaluated, no
\* callback, step or rollback was run and no log file was written.
C23_InvalidInputsNoEffect ==
    (pc # "idle" /\ skill_name \in Registered /\ InputsInvalid) =>
        /\ pc = "done" /\ result.returned /\ ~result.success
        /\ result.error.kind \in {"Missing required input", "Invalid value"}
        /\ skill_inputs = inputs_passed
        /\ NothingDone /\ ~result.log_file

\* C23 witness: the required input, which has a default, was not passed; the
\* call returned a failure and the mapping is still without it.
C23_Witness ==
    /\ pc = "done" /\ skill_name \in Registered
    /\ input_spec.required /\ input_spec.default = "dev"
    /\ inputs_passed = Absent /\ skill_inputs = Absent
    /\ result.error.kind = "Missing required input"

\* C24: asked for a skill that is not in the registry, execute_skill returns
\* at once a failure whose error names the skill asked for and lists the
\* names of the registry in ascending order; nothing is executed.
C24_UnknownSkill ==
    (pc # "idle" /\ skill_name \notin Registered) =>
        /\ pc = "done" /\ result.returned /\ ~result.success
        /\ result.error.kind = "Skill not found"
        /\ result.error.name = skill_name
        /\ Range(result.error.available) = Registered
        /\ Len(result.error.available) = Cardinality(Registered)
        /\ \A j, k \in 1..Len(result.error.available) :
               j < k => Rank(result.error.available[j])
                           < Rank(result.error.available[k])
        /\ skill_inputs = inputs_passed
        /\ NothingDone /\ ~result.log_file

\* C24 witness: "baz" was asked of a registry loaded with "foo" then "bar";
\* the error lists bar, foo.
C24_Witness ==
    /\ pc = "done" /\ skill_name = "baz"
    /\ RegistryKeys(registry) = <<"foo", "bar">>
    /\ result.error.kind = "Skill not found"
    /\ result.error.available = <<"bar", "foo">>

\* C26: a checkpoint step succeeds exactly when no callback was given or the
\* callback returned a truthy value; for every falsy value, None among them,
\* it fails.  (Stated for callbacks that return a plain value, not a
\* StepResult of their own.)
C26_CheckpointGate ==
    (step.type = "checkpoint" /\ step_pc = "done" /\ step_result.returned
        /\ step_result.error # "exception"
        /\ callback_returned \notin {"StepResult ok", "StepResult failed"}) =>
        (step_result.success <=> (~step_callback \/ callback_returned = "truthy"))

\* Every prerequisite of the skill was evaluated and passed.
PrereqsPassed ==
    /\ Len(prereqs_evaluated) = Len(skill.pre_requisites)
    /\ AllTrue(prereqs_evaluated)

\* C25: a dry run dispatches no step, verifies nothing, rolls nothing back
\* and invokes no agent callback, the documentation preload included; once
\* the skill resolved, the inputs validated and the prerequisites passed, it
\* returns success with steps_completed = ["(dry run)"].
C25_DryRunInert ==
    dry_run =>
        /\ dispatched = <<>> /\ verify_evaluated = <<>>
        /\ ~rollback_invoked /\ rollback_executed = <<>>
        /\ ~context7_loaded
        /\ (pc = "done" /\ skill_name \in Registered /\ ~InputsInvalid
                /\ PrereqsPassed) =>
              /\ result.returned /\ result.success
              /\ result.steps_completed = <<"(dry run)">>

\* C25 witness: a dry run, with an agent callback, of a skill that requires
\* documentation and has two prerequisites, returned ["(dry run)"].
C25_Witness ==
    /\ pc = "done" /\ dry_run /\ agent_callback
    /\ skill.context7_required /\ Len(skill.pre_requisites) = 2
    /\ PrereqsPassed
    /\ result.success /\ result.steps_completed = <<"(dry run)">>

\* C29: when the skill requires documentation, no step is dispatched unless
\* the use_context7 preload was invoked before, in the same execution.
C29_PreloadBeforeSteps ==
    (skill.context7_required /\ dispatched # <<>>) => context7_loaded

\* C30 as written: steps [a, b, c], rollback [cleanup, undo_b, undo_a], c
\* fails for good: steps_completed = [a, b], steps_failed = [c] and the
\* rollback entries run are [cleanup, undo_a].
C30_RollbackScenario ==
    (pc = "done" /\ Len(skill.steps) = 3 /\ interrupt_at = "none"
        /\ skill.rollback = <<"cleanup", "undo_b", "undo_a">>
        /\ steps_failed # <<>> /\ dispatched[Len(dispatched)].step = 3) =>
        /\ steps_completed = <<"a", "b">> /\ steps_failed = <<"c">>
        /\ rollback_executed = <<"cleanup", "undo_a">>

\* C30 amended: in that scenario steps_completed = [a, b], steps_failed =
\* [c] and the only rollback entry run is cleanup: neither undo_a nor undo_b
\* is the id of a completed step.
C30_RollbackCleanupOnly ==
    (pc = "done" /\ Len(skill.steps) = 3
        /\ skill.rollback = <<"cleanup", "undo_b", "undo_a">>
        /\ steps_failed # <<>> /\ dispatched[Len(dispatched)].step = 3) =>
        /\ steps_completed = <<"a", "b">> /\ steps_failed = <<"c">>
        /\ rollback_executed = <<"cleanup">>

\* C30 witness: c failed after its retry and the rollback ran cleanup alone.
C30_Witness ==
    /\ pc = "done" /\ Len(skill.steps) = 3 /\ skill.steps[3].retry = 1
    /\ skill.rollback = <<"cleanup", "undo_b", "undo_a">>
    /\ steps_completed = <<"a", "b">> /\ steps_failed = <<"c">>
    /\ Cardinality(FailedAttempts(3)) = 2
    /\ rollback_executed = <<"cleanup">>

\* C27: when two spec files declare the same name, the load reports an error
\* for the later one and the later one does not replace the entry of the
\* earlier one in the registry.
C27_DuplicateRejected ==
    load_pc = "done" =>
        \A j, k \in 1..Len(files) :
            (j < k /\ files[j].name = files[k].name
                   /\ j \in Range(registered)) =>
                /\ k \notin Range(registered)
                /\ \E e \in Range(load_errors) : e.file = k
                /\ \E r \in Range(registry) :
                       r.name = files[j].name /\ r.file = j

\* C28: with the schema file on disk and the validator library missing, the
\* load of each controller reports the validator as missing, and no spec file
\* reaches a registry without having been validated against the schema.
C28_ValidatorEnforced ==
    schema_exists =>
        /\ \A k \in Range(registered) : k \in Range(validated)
        /\ (load_pc = "done" /\ ~has_jsonschema
                /\ \E k \in 1..Len(files) : files[k].json_ok) =>
              \E e \in Range(load_errors) : e.kind = "jsonschema not installed"

C32_DryRunInert ==
    [][wf_dry_run' =>
          /\ wf_pc' = "done"
          /\ wf_result'.returned /\ wf_result'.success
          /\ wf_result'.phases_completed = <<"(dry run)">>
          /\ invoked' = <<>> /\ hooks' = <<>>
          /\ state_file' = state_file
          /\ ~context_updated']_vars

\* C32 witness: a dry run asked to resume a paused execution returned and the
\* paused state file is still there.
C32_Witness ==
    /\ wf_pc = "done" /\ wf_dry_run /\ wf_resume
    /\ restored_state # NoFile /\ state_file = restored_state
    /\ state_file.status = "paused"
    /\ invoked = <<>> /\ hooks = <<>> /\ ~context_updated

\* C33: in a call that restored a paused state the effective inputs are the
\* restored inputs overlaid with what the caller passed: a key the caller
\* passed has the caller's value, and a key the caller did not pass keeps the
\* restored value, whatever default the workflow declares for it (stated for a paused state
\* saved after phases that all succeeded).
C33_ResumeMerge ==
    (/\ wf_pc # "idle" /\ restored_state # NoFile
     /\ restored_state.phases_failed = <<>>) =>
        wf_inputs = MergeInputs(restored_state.inputs, wf_passed)

\* C34: a paused state is saved and the checkpoint hook is invoked only after
\* a phase that succeeded: every hook call of the call is for a phase in
\* phases_completed, and a call that waits at a checkpoint or has just saved
\* a paused state did so after a phase that is in phases_completed, never
\* after one that failed or was skipped.
C34_CheckpointAfterSuccess ==
    /\ \A j \in 1..Len(hooks) :
          workflow.phases[hooks[j] + 1].name \in Range(phases_completed)
    /\ (wf_pc \in {"phase", "checkpoint", "done"} /\ ~wf_dry_run
         /\ state_file.written /\ state_file.status = "paused"
         /\ state_file # restored_state) =>
          /\ state_file.current_phase_index >= 1
          /\ workflow.phases[state_file.current_phase_index].name
                \in Range(state_file.phases_completed)

\* C35: a call that reaches the normal loop exit returns success exactly when
\* no phase of the workflow failed, the phases that failed before the pause
\* this call resumed from included (stated for a pause that followed a
\* succeeded phase).
C35_AggregateSuccess ==
    (/\ wf_pc = "done" /\ ~wf_dry_run /\ wf_result.status = "completed"
     /\ restored_state # NoFile =>
           workflow.phases[restored_state.current_phase_index].name
               \in Range(restored_state.phases_completed)) =>
        (wf_result.success <=>
            /\ phases_failed = <<>>
            /\ restored_state # NoFile => restored_state.phases_failed = <<>>)

\* C36: a paused state saved by a call that resumed from an earlier pause
\* lists the phases that succeeded before that pause, followed by the phases
\* that succeeded since.
C36_PausedListsAll ==
    (/\ wf_pc \in {"phase", "checkpoint", "done"} /\ restored_state # NoFile
     /\ state_file.written /\ state_file.status = "paused"
     /\ state_file # restored_state) =>
        IsPrefix(restored_state.phases_completed, state_file.phases_completed)

\* C37: at the start of a call the saved state is restored exactly when
\* resume is set and the state file exists with status paused: then the loop
\* starts at the saved index with the saved phase_outputs. In every other case
\* (no resume, no file, a file with status failed or cancelled) the call
\* starts at phase 0 with empty phase_outputs and the caller's inputs (with
\* the declared defaults), and the first phase to run is the first phase.
C37_RestoreOnlyPaused ==
    [][/\ (wf_pc = "idle" /\ wf_pc' # "idle") =>
            IF wf_resume' /\ state_file.written /\ state_file.status = "paused"
            THEN /\ restored_state' = state_file
                 /\ start_phase' = state_file.current_phase_index
                 /\ phase_outputs' = state_file.phase_outputs
            ELSE /\ restored_state' = NoFile
                 /\ start_phase' = 0
                 /\ phase_outputs' = NoOutputs
                 /\ wf_inputs' = ApplyDefaults(workflow, wf_passed')
       /\ (restored_state' = NoFile /\ invoked' # <<>> /\ phases_skipped' = <<>>) =>
            invoked'[1] = 0]_vars

\* C37 witness: a call with resume set found the state file of a run that
\* failed after a completed phase, and starts again at the first phase.
C37_Witness ==
    /\ wf_pc = "phase" /\ wf_resume /\ i = 0 /\ invoked = <<>>
    /\ state_file.written /\ state_file.status \in {"failed", "cancelled"}
    /\ state_file.phases_completed # <<>>
    /\ restored_state = NoFile /\ start_phase = 0 /\ phase_outputs = NoOutputs

\* C38: a returned WorkflowResult has status completed exactly when its
\* success is true.
C38_CompletedIffSuccess ==
    wf_result.returned =>
        (wf_result.status = "completed" <=> wf_result.success)

\* C39: when a call that executed phases has returned and the state file
\* exists, the status in the file is the status of the returned result (stated
\* for a file whose paused state followed a succeeded phase).
C39_FileStatusIsResultStatus ==
    (/\ wf_pc = "done" /\ ~wf_dry_run /\ state_file.written
     /\ state_file.status = "paused" =>
           workflow.phases[state_file.current_phase_index].name
               \in Range(state_file.phases_completed)) =>
        state_file.status = wf_result.status

\* C40: within one call of execute_skill the rollback is entered at most
\* once, only with a step id appended to steps_failed, and it is followed by
\* the finalization of the log; a rollback entry runs only inside that
\* rollback, before the log is written. When a host interrupt outside the
\* rollback or an unexpected exception ends the call, no rollback entry has
\* run, whatever steps had completed.
C40_RollbackOnce ==
    [][/\ (pc' = "rollback" /\ pc # "rollback") =>
            /\ ~rollback_invoked /\ rollback_invoked'
            /\ steps_failed = <<>> /\ Len(steps_failed') = 1
            /\ rollback_executed = <<>>
       /\ rollback_executed' # rollback_executed =>
            /\ pc = "rollback" /\ rollback_invoked /\ steps_failed # <<>>
            /\ ~log_file.written
            /\ Len(rollback_executed') = Len(rollback_executed) + 1
       /\ (pc = "rollback" /\ pc' # "rollback") =>
            pc' = "done" /\ log_file'.written
       /\ (\/ interrupt_at' \notin {"none", "rollback"}
           \/ result'.returned /\ result'.error.kind = "exception") =>
            rollback_executed' = <<>> /\ ~rollback_invoked']_vars

\* C40 witness: a host interrupt ended the call after a step had completed,
\* in a skill with a rollback entry for that step, and no rollback entry ran.
C40_Witness ==
    /\ pc = "done" /\ interrupt_at \in {"step", "retry", "verify"}
    /\ steps_completed # <<>> /\ RollbackDue # <<>>
    /\ \E k \in 1..Len(skill.rollback) :
          skill.rollback[k] \in Range(steps_completed)
    /\ rollback_executed = <<>> /\ ~rollback_invoked
    /\ log_file.written

====
